---- MODULE Spec2Model ----
(***************************************************************************)
(* Model of menace/knowledge_graph.py: the in-memory KnowledgeGraph store  *)
(* (relation table, node map, telemetry log, error-pressure counter) used  *)
(* by several threads through one re-entrant lock; of the two             *)
(* publish/subscribe hubs, UnifiedEventBus (menace/unified_event_bus.py)   *)
(* and _MemoryManager (menace/db_router.py); and of the connection cache   *)
(* of DBRouter (menace/db_router.py).                                      *)
(*                                                                         *)
(* Strings are sequences of tokens.  A token is either one of the          *)
(* namespace prefixes ("memory:", "code:", ...), a blank " ", or a name.   *)
(* Concatenation is \o, str.strip() removes leading and trailing blanks,   *)
(* str.startswith("code:") looks at the first token, and the order used by *)
(* sorted() is the lexicographic order of the code points (Rank).  No      *)
(* token is a prefix of another one, so the token order is the string      *)
(* order.  Weights are counted in halves: 1.0 is 2 and 0.5 is 1.           *)
(***************************************************************************)
EXTENDS Integers, Sequences, FiniteSets, TLC

VARIABLES
    relations,    \* self._relations: node -> Counter (pairs in insertion order)
    nodes,        \* self.graph.nodes: node -> attribute map
    events,       \* self._events: list of _TelemetryEvent
    error_stats,  \* self._error_stats: Counter
    lockOwner,    \* holder of self._lock, or NoThread
    pc,           \* per thread: "off" (not started), "idle", "pending" (in a
                  \* call, before the lock), "body" (holding the lock),
                  \* "returned" (holding the list telemetry_events returned)
    op,           \* per thread: the call in progress
    prog,         \* per thread: statements of the locked body still to run
    ret,          \* per thread: value the call in progress returns
    clock,        \* wall clock read by datetime.utcnow()
    budget,       \* number of mutating calls the callers may still start
    hist,         \* mutating calls in the order they entered the lock
    snap,         \* store as it was when the lock was last taken
    subscribers,  \* UnifiedEventBus._subscribers: topic -> list of callbacks
    subscriptions,\* _MemoryManager._subscriptions: list of _Subscription
    pub,          \* the publish call in progress: its copy of the callbacks,
                  \* its position in it, and the callbacks it has called
    outcome,      \* what the last subscribe or publish call returned or raised
    subsLeft,     \* number of subscriptions the callers may still make
    subLog,       \* the subscriptions made, in the order of the calls
    connections,  \* DBRouter._connections: name -> connection
    routerLock,   \* holder of DBRouter._lock, or NoThread
    rt,           \* per thread: the router call in progress
    connName,     \* the connections created so far: connection -> name
    closed,       \* the connections that have been closed
    getsLeft,     \* number of get_connection calls the callers may still make
    fetched       \* per thread: what its last get_connection returned

kgVars == <<relations, nodes, events, error_stats, lockOwner, pc, op, prog,
            ret, clock, budget, hist, snap>>

busVars == <<subscribers, subscriptions, pub, outcome, subsLeft, subLog>>

routerVars == <<connections, routerLock, rt, connName, closed, getsLeft, fetched>>

vars == <<kgVars, busVars, routerVars>>

store == <<relations, nodes, events, error_stats>>

\* ------------------------------------------------------------------------
\* bounds
MaxOps == 2       \* mutating calls of a behaviour with two caller threads
MaxSeqOps == 3    \* mutating calls of a behaviour with one caller thread
MaxFewOps == 1    \* mutating calls of a behaviour under the fair scheduler,
                  \* or with callers that write to the values they were returned
MaxSubs == 2      \* subscriptions made on the two publish/subscribe hubs
MaxGets == 2      \* get_connection calls made on the router

Threads == {"t1", "t2"}
NoThread == "none"

\* ------------------------------------------------------------------------
\* strings
None == <<"<None>">>
Blank == " "
EmptyStr == <<>>

Str(tok) == <<tok>>

Truthy(s) == s # None /\ s # EmptyStr

\* code point order of the tokens in use
Rank(tok) ==
    CASE tok = " "       -> 0
      [] tok = "Alpha"   -> 1
      [] tok = "alpha"   -> 2
      [] tok = "beta"    -> 3
      [] tok = "bot1"    -> 4
      [] tok = "bot:"    -> 5
      [] tok = "code:"   -> 6
      [] tok = "err"     -> 7
      [] tok = "error:"  -> 8
      [] tok = "event:"  -> 9
      [] tok = "fail"    -> 10
      [] tok = "k1"      -> 11
      [] tok = "memory:" -> 12
      [] tok = "mod_x"   -> 13
      [] tok = "mod_y"   -> 14
      [] tok = "tag:"    -> 15
      [] OTHER           -> 16

RECURSIVE StrLess(_, _)
StrLess(a, b) ==
    IF a = <<>> THEN b # <<>>
    ELSE IF b = <<>> THEN FALSE
    ELSE IF Head(a) = Head(b) THEN StrLess(Tail(a), Tail(b))
    ELSE Rank(Head(a)) < Rank(Head(b))

RECURSIVE lstrip(_)
lstrip(s) ==
    IF s = <<>> THEN s
    ELSE IF Head(s) = Blank THEN lstrip(Tail(s)) ELSE s

RECURSIVE rstrip(_)
rstrip(s) ==
    IF s = <<>> THEN s
    ELSE IF s[Len(s)] = Blank THEN rstrip(SubSeq(s, 1, Len(s) - 1)) ELSE s

\* KnowledgeGraph._normalise_tag: tag.strip()
normalise_tag(tag) == rstrip(lstrip(tag))

startswith(s, tok) == s # <<>> /\ Head(s) = tok

\* f"{prefix}:{value}"
Prefixed(prefixTok, value) == <<prefixTok>> \o value

\* sorted(S) for a set of strings
RECURSIVE sorted(_)
sorted(S) ==
    IF S = {} THEN <<>>
    ELSE LET least == CHOOSE x \in S : \A y \in S \ {x} : StrLess(x, y)
         IN  <<least>> \o sorted(S \ {least})

SeqToSet(s) == {s[i] : i \in DOMAIN s}

\* ------------------------------------------------------------------------
\* collections.Counter, kept as the pairs <<name, w>> in insertion order
CounterNames(cnt) == {cnt[i].name : i \in DOMAIN cnt}

CounterGet(cnt, name) ==
    IF name \in CounterNames(cnt)
    THEN (cnt[CHOOSE i \in DOMAIN cnt : cnt[i].name = name]).w
    ELSE 0

\* cnt[name] += w
CounterAdd(cnt, name, w) ==
    IF name \in CounterNames(cnt)
    THEN LET i == CHOOSE j \in DOMAIN cnt : cnt[j].name = name
         IN  [cnt EXCEPT ![i].w = @ + w]
    ELSE Append(cnt, [name |-> name, w |-> w])

\* Counter.most_common(n): heapq.nlargest(n, items, key=count), which is
\* sorted(items, key=count, reverse=True)[:n]: a stable sort, so equal counts
\* keep their insertion order; n <= 0 gives the empty list.
RECURSIVE sortedByCountDesc(_, _)
sortedByCountDesc(cnt, left) ==
    IF left = {} THEN <<>>
    ELSE LET best == CHOOSE i \in left :
                        \A j \in left \ {i} :
                            \/ cnt[i].w > cnt[j].w
                            \/ (cnt[i].w = cnt[j].w /\ i < j)
         IN  <<cnt[best]>> \o sortedByCountDesc(cnt, left \ {best})

\* faulty most_common: equal counts come out in reverse insertion order
RECURSIVE sortedByCountDescLast(_, _)
sortedByCountDescLast(cnt, left) ==
    IF left = {} THEN <<>>
    ELSE LET best == CHOOSE i \in left :
                        \A j \in left \ {i} :
                            \/ cnt[i].w > cnt[j].w
                            \/ (cnt[i].w = cnt[j].w /\ i > j)
         IN  <<cnt[best]>> \o sortedByCountDescLast(cnt, left \ {best})

most_common_unstable(cnt, n) ==
    LET all == sortedByCountDescLast(cnt, DOMAIN cnt)
    IN  IF n <= 0 THEN <<>>
        ELSE IF n >= Len(all) THEN all ELSE SubSeq(all, 1, n)

most_common(cnt, n) ==
    LET all == sortedByCountDesc(cnt, DOMAIN cnt)
    IN  IF n <= 0 THEN <<>>
        ELSE IF n >= Len(all) THEN all ELSE SubSeq(all, 1, n)

\* ------------------------------------------------------------------------
\* dictionaries as functions
Get(map, key, default) == IF key \in DOMAIN map THEN map[key] ELSE default

Put(map, key, val) ==
    [x \in DOMAIN map \cup {key} |-> IF x = key THEN val ELSE map[x]]

EmptyMap == [x \in {} |-> 0]

\* dict.update(attrs)
\* faulty dict.update: the new attributes replace the metadata
Update_replace(old, attrs) == attrs

Update(old, attrs) ==
    [x \in DOMAIN old \cup DOMAIN attrs |->
        IF x \in DOMAIN attrs THEN attrs[x] ELSE old[x]]

\* _SimpleDiGraph.add_node: self.nodes.setdefault(node, {}).update(attrs)
add_node(g, node, attrs) == Put(g, node, Update(Get(g, node, EmptyMap), attrs))

\* accumulated weight relation[a][b], 0 when absent
Weight(rel, a, b) == CounterGet(Get(rel, a, <<>>), b)

\* ------------------------------------------------------------------------
\* weights passed to _link
W1 == 2        \* weight=1.0
WHalf == 1     \* weight=0.5

\* statements of a locked body, run one at a time by the lock holder
StEnsure(node, attrs) ==
    [k |-> "ensure", a |-> node, b |-> <<>>, w |-> 0, attrs |-> attrs]
StRel(src, dst, weight) ==
    [k |-> "rel", a |-> src, b |-> dst, w |-> weight, attrs |-> EmptyMap]
StEdge(src, dst) ==
    [k |-> "edge", a |-> src, b |-> dst, w |-> 0, attrs |-> EmptyMap]
StAppend ==
    [k |-> "append", a |-> <<>>, b |-> <<>>, w |-> 0, attrs |-> EmptyMap]
StStat(module_node) ==
    [k |-> "stat", a |-> module_node, b |-> <<>>, w |-> 0, attrs |-> EmptyMap]
StReplace ==
    [k |-> "replace", a |-> <<>>, b |-> <<>>, w |-> 0, attrs |-> EmptyMap]

\* _link, line 105: [n for n in dict.fromkeys(nodes) if n]
RECURSIVE fromkeys(_, _)
fromkeys(ns, seen) ==
    IF ns = <<>> THEN <<>>
    ELSE IF Head(ns) \in seen THEN fromkeys(Tail(ns), seen)
    ELSE <<Head(ns)>> \o fromkeys(Tail(ns), seen \cup {Head(ns)})

uniq(ns) == SelectSeq(fromkeys(ns, {}), Truthy)

\* faulty inner loop: line 112, the write of the reverse direction, is missing
RECURSIVE linkInner_oneway(_, _, _, _)
linkInner_oneway(u, idx, j, weight) ==
    IF j > Len(u) THEN <<>>
    ELSE (IF u[idx] = u[j] THEN <<>>
          ELSE <<StRel(u[idx], u[j], weight), StEdge(u[idx], u[j])>>)
         \o linkInner_oneway(u, idx, j + 1, weight)

\* _link, lines 108-121: the inner loop over uniq[idx + 1:]
RECURSIVE linkInner(_, _, _, _)
linkInner(u, idx, j, weight) ==
    IF j > Len(u) THEN <<>>
    ELSE (IF u[idx] = u[j] THEN <<>>
          ELSE <<StRel(u[idx], u[j], weight),
                 StRel(u[j], u[idx], weight),
                 StEdge(u[idx], u[j])>>)
         \o linkInner(u, idx, j + 1, weight)

\* _link, lines 106-121: the outer loop
RECURSIVE linkOuter(_, _, _)
linkOuter(u, idx, weight) ==
    IF idx > Len(u) THEN <<>>
    ELSE <<StEnsure(u[idx], EmptyMap)>>
         \o linkInner(u, idx, idx + 1, weight)
         \o linkOuter(u, idx + 1, weight)

\* faulty _link: every pair of positions of the argument list is linked,
\* without removing duplicates and without the src == dst test
RECURSIVE rawInner(_, _, _, _)
rawInner(ns, idx, j, weight) ==
    IF j > Len(ns) THEN <<>>
    ELSE <<StRel(ns[idx], ns[j], weight), StRel(ns[j], ns[idx], weight),
           StEdge(ns[idx], ns[j])>>
         \o rawInner(ns, idx, j + 1, weight)

RECURSIVE rawOuter(_, _, _)
rawOuter(ns, idx, weight) ==
    IF idx > Len(ns) THEN <<>>
    ELSE <<StEnsure(ns[idx], EmptyMap)>>
         \o rawInner(ns, idx, idx + 1, weight)
         \o rawOuter(ns, idx + 1, weight)

link_rawpairs(ns, weight) == rawOuter(SelectSeq(ns, Truthy), 1, weight)

\* KnowledgeGraph._link(*nodes, weight)
link(ns, weight) == linkOuter(uniq(ns), 1, weight)

RECURSIVE Flatten(_)
Flatten(ss) == IF ss = <<>> THEN <<>> ELSE Head(ss) \o Flatten(Tail(ss))

\* add_memory_entry, line 140
normalised(tags) ==
    sorted({normalise_tag(tags[i]) : i \in {j \in DOMAIN tags : tags[j] # EmptyStr}})

memory_node(key) == Prefixed("memory:", key)

\* add_memory_entry, lines 137-147 (the body under the lock)
add_memory_entry_body(key, tags) ==
    LET node_id == memory_node(key)
        norm == normalised(tags)
    IN  <<StEnsure(node_id, [kind |-> "memory", key |-> key])>>
        \o (IF tags = <<>> THEN <<>>
            ELSE Flatten([i \in DOMAIN norm |->
                            <<StEnsure(norm[i], [kind |-> "tag"])>>
                            \o link(<<node_id, norm[i]>>, W1)])
                 \o Flatten([i \in DOMAIN norm |->
                            Flatten([j \in 1 .. (Len(norm) - i) |->
                                link(<<norm[i], norm[i + j]>>, WHalf)])]))

\* faulty node list: line 171-172, the skip of an empty value, is missing
insight_nodes_keepempty(prefixTok, values) ==
    [i \in DOMAIN values |-> Prefixed(prefixTok, values[i])]

\* add_gpt_insight, lines 163-175: the nodes of one category
insight_nodes(prefixTok, values) ==
    LET kept == SelectSeq(values, Truthy)
    IN  [i \in DOMAIN kept |-> Prefixed(prefixTok, kept[i])]

insight_ensures(prefixTok, kind, values) ==
    LET ns == insight_nodes(prefixTok, values)
    IN  [i \in DOMAIN ns |-> StEnsure(ns[i], [kind |-> kind])]

\* add_gpt_insight, lines 161-176 (the body under the lock)
add_gpt_insight_body(key, bots, code_paths, error_categories) ==
    LET node_id == memory_node(key)
    IN  <<StEnsure(node_id, [kind |-> "memory", key |-> key])>>
        \o insight_ensures("bot:", "bot", bots)
        \o insight_ensures("code:", "code", code_paths)
        \o insight_ensures("error:", "error", error_categories)
        \o link(<<node_id>> \o insight_nodes("bot:", bots)
                \o insight_nodes("code:", code_paths)
                \o insight_nodes("error:", error_categories), W1)

\* faulty normalisation: the prefix is added to a name that already has it
code_node_always(name) == Prefixed("code:", name)

\* add_telemetry_event, lines 203 and 213
code_node(name) == IF startswith(name, "code:") THEN name ELSE Prefixed("code:", name)

\* add_telemetry_event, lines 201-203
module_node_of(module) == IF Truthy(module) THEN code_node(module) ELSE None

\* add_telemetry_event, lines 192-200
TelemetryEvent(bot, event_type, module, resolved, now) ==
    [bot |-> bot, event_type |-> event_type,
     module |-> IF Truthy(module) THEN module ELSE None,
     resolved |-> resolved, timestamp |-> now]

\* faulty node list: lines 211-212, the skip of an empty related name, are
\* missing
telemetry_nodes_keepempty(record, module_node, mods) ==
    <<Prefixed("bot:", record.bot), Prefixed("event:", record.event_type)>>
    \o (IF Truthy(module_node) THEN <<module_node>> ELSE <<>>)
    \o [i \in DOMAIN mods |-> code_node(mods[i])]

\* add_telemetry_event, lines 206-214
telemetry_nodes(record, module_node, mods) ==
    LET named == SelectSeq(mods, Truthy)
    IN  <<Prefixed("bot:", record.bot), Prefixed("event:", record.event_type)>>
        \o (IF Truthy(module_node) THEN <<module_node>> ELSE <<>>)
        \o [i \in DOMAIN named |-> code_node(named[i])]

\* add_telemetry_event, lines 205-223 (the body under the lock)
add_telemetry_event_body(record, module_node, mods) ==
    <<StAppend>>
    \o link(telemetry_nodes(record, module_node, mods), W1)
    \o (IF Truthy(module_node) THEN <<StStat(module_node)>> ELSE <<>>)

Max(a, b) == IF a >= b THEN a ELSE b

\* faulty counter step: the decrement is not floored at 0
error_step_nofloor(stats, module_node, resolved) ==
    IF resolved = "True"
    THEN Put(stats, module_node, Get(stats, module_node, 0) - 1)
    ELSE Put(stats, module_node, Get(stats, module_node, 0) + 1)

\* faulty counter step: only resolved=False counts as unresolved, so an
\* absent flag decrements
error_step_none_resolves(stats, module_node, resolved) ==
    IF resolved # "False"
    THEN Put(stats, module_node, Max(0, Get(stats, module_node, 0) - 1))
    ELSE Put(stats, module_node, Get(stats, module_node, 0) + 1)

\* faulty counter step: the increment starts from a count read before the
\* other callers' increments, here the empty counter
error_step_stale(stats, module_node, resolved) ==
    IF resolved = "True"
    THEN Put(stats, module_node, Max(0, Get(stats, module_node, 0) - 1))
    ELSE Put(stats, module_node, 0 + 1)

\* add_telemetry_event, lines 216-223
error_step(stats, module_node, resolved) ==
    IF resolved = "True"
    THEN Put(stats, module_node, Max(0, Get(stats, module_node, 0) - 1))
    ELSE Put(stats, module_node, Get(stats, module_node, 0) + 1)

\* faulty related: lines 231-232 are missing, so an unknown key ends in
\* None.most_common and the call raises AttributeError
related_result_noguard(rel, key, limit) ==
    LET neighbours == Get(rel, key, <<>>)
        top == most_common(neighbours, limit)
    IN  IF key \notin DOMAIN rel THEN <<<<"<AttributeError>">>>>
        ELSE [i \in DOMAIN top |-> top[i].name]

\* related, lines 230-233
related_result(rel, key, limit) ==
    LET neighbours == Get(rel, key, <<>>)
        top == most_common(neighbours, limit)
    IN  IF neighbours = <<>> THEN <<>>
        ELSE [i \in DOMAIN top |-> top[i].name]

\* faulty lookup: self._relations[key] on the defaultdict inserts an empty
\* Counter under a key that is missing
relations_after_getitem(rel, key) ==
    IF key \in DOMAIN rel THEN rel ELSE Put(rel, key, <<>>)

\* related, line 230: self._relations.get(key) inserts nothing into the
\* defaultdict
relations_after_get(rel, key) == rel

\* faulty append: the record is inserted at the front of the list
events_insert_front(log, record) == <<record>> \o log

\* add_telemetry_event, line 205: self._events.append(record)
events_append(log, record) == Append(log, record)

\* _link, lines 111-112: self._relations[src][dst] += weight
\* faulty accumulation: the weight is taken off the entry
relation_sub(rel, src, dst, weight) ==
    Put(rel, src, CounterAdd(Get(rel, src, <<>>), dst, 0 - weight))

relation_add(rel, src, dst, weight) ==
    Put(rel, src, CounterAdd(Get(rel, src, <<>>), dst, weight))

\* ------------------------------------------------------------------------
\* the calls the threads make
Keys == {<<"k1">>}

TagLists ==
    { <<>>,
      <<<<"alpha">>, <<"beta">>>>,
      <<<<" ">>, <<" ", "alpha">>, <<"alpha">>, <<"Alpha", " ">>>>,
      <<<<"memory:", "k1">>, <<"alpha">>>> }

InsightArgs ==
    { [bots |-> <<<<"bot1">>, <<"bot1">>>>, code_paths |-> <<EmptyStr>>,
       error_categories |-> <<<<"err">>>>],
      [bots |-> <<>>, code_paths |-> <<>>, error_categories |-> <<>>] }

TelemetryArgs ==
    { [module |-> <<"mod_x">>, mods |-> <<>>, resolved |-> "False"],
      [module |-> <<"code:", "mod_x">>, mods |-> <<>>, resolved |-> "True"],
      [module |-> None, mods |-> <<>>, resolved |-> "None"],
      [module |-> <<"mod_y">>, mods |-> <<<<"mod_y">>, EmptyStr, <<"mod_x">>>>,
       resolved |-> "None"] }

Bots == {<<"bot1">>}
EventTypes == {<<"fail">>}

RelatedArgs ==
    { [node |-> <<"alpha">>, limit |-> 1],
      [node |-> <<" ", "alpha">>, limit |-> 10],
      [node |-> <<"tag:", "alpha">>, limit |-> 10],
      [node |-> <<"memory:", "k1">>, limit |-> 10],
      [node |-> <<"memory:", "k1">>, limit |-> 2],
      [node |-> <<"bot:", "bot1">>, limit |-> 0] }

\* error_db of update_error_stats: the attributes error_counts, error_stats
\* and counts in the order they are tried.  An attribute is absent, a plain
\* value or a callable; its data is a mapping or not; a value of a mapping
\* converts with int() or not.
Absent == [kind |-> "absent", raises |-> FALSE, isMapping |-> FALSE, items |-> EmptyMap]
Attr(kind, isMapping, items) ==
    [kind |-> kind, raises |-> FALSE, isMapping |-> isMapping, items |-> items]
Raising == [kind |-> "callable", raises |-> TRUE, isMapping |-> FALSE, items |-> EmptyMap]
IntVal(n) == [ok |-> TRUE, val |-> n]
BadVal == [ok |-> FALSE, val |-> 0]
One(key, v) == [x \in {key} |-> v]

NoDb == <<>>      \* error_db is None

Sources ==
    { NoDb,
      <<Raising, Attr("value", FALSE, EmptyMap),
        Attr("callable", TRUE, One(<<"code:", "mod_y">>, IntVal(1)))>>,
      <<Absent, Attr("callable", TRUE, One(<<"code:", "mod_x">>, IntVal(-1))),
        Attr("value", TRUE, One(<<"code:", "mod_x">>, IntVal(2)))>>,
      <<Absent, Attr("value", FALSE, EmptyMap), Raising>>,
      <<Absent, Absent, Attr("value", TRUE, One(<<"code:", "mod_x">>, BadVal))>> }

\* faulty choice: a later candidate that yields a mapping overrides an earlier
\* one
RECURSIVE last_mapping(_)
last_mapping(candidates) ==
    IF candidates = <<>> THEN [found |-> FALSE, items |-> EmptyMap]
    ELSE LET c == candidates[Len(candidates)]
         IN  IF ~c.raises /\ c.isMapping
             THEN [found |-> TRUE, items |-> c.items]
             ELSE last_mapping(SubSeq(candidates, 1, Len(candidates) - 1))

\* update_error_stats, lines 251-260: the first candidate that yields a mapping
RECURSIVE first_mapping(_)
first_mapping(candidates) ==
    IF candidates = <<>> THEN [found |-> FALSE, items |-> EmptyMap]
    ELSE LET c == Head(candidates)
         IN  IF ~c.raises /\ c.isMapping
             THEN [found |-> TRUE, items |-> c.items]
             ELSE first_mapping(Tail(candidates))

\* update_error_stats, line 262: Counter({str(k): int(v) for k, v in data.items()})
convertible(items) == \A key \in DOMAIN items : items[key].ok
converted(items) == [key \in DOMAIN items |-> items[key].val]

\* ------------------------------------------------------------------------
IdleOp == [name |-> "idle"]
\* what a call returns: a list of node ids (related), a mapping
\* (error_stats), a list of events (telemetry_events), None, or an exception
NoRet == [kind |-> "none", names |-> <<>>, stats |-> EmptyMap, log |-> <<>>]
RetNames(ids) == [NoRet EXCEPT !.kind = "names", !.names = ids]
RetStats(counts) == [NoRet EXCEPT !.kind = "stats", !.stats = counts]
RetLog(evs) == [NoRet EXCEPT !.kind = "log", !.log = evs]
RetNone == [NoRet EXCEPT !.kind = "None"]
Raised == [NoRet EXCEPT !.kind = "raised"]

EmptyStore ==
    [relations |-> EmptyMap, nodes |-> EmptyMap, events |-> <<>>,
     error_stats |-> EmptyMap]

CurrentStore ==
    [relations |-> relations, nodes |-> nodes, events |-> events,
     error_stats |-> error_stats]

\* no subscribe or publish call has been made, none is in progress
NoOutcome == [hub |-> "none", call |-> "none", value |-> "none"]

NoPub ==
    [active |-> FALSE, hub |-> "none", topic |-> "none", callbacks |-> <<>>,
     i |-> 1, called |-> <<>>, start |-> 0]

\* name=None of close(), and the connection of a name that has none
NoName == "<None>"
NoConn == 0

\* no router call is in progress
IdleCall == [pc |-> "idle", name |-> NoName, conn |-> NoConn, todo |-> {}]

\* KnowledgeGraph.__init__, lines 81-93, with the threads in callers started;
\* UnifiedEventBus.__init__, _MemoryManager.__init__ and DBRouter.__init__
InitWith(callers, calls) ==
    /\ relations = EmptyMap
    /\ nodes = EmptyMap
    /\ events = <<>>
    /\ error_stats = EmptyMap
    /\ lockOwner = NoThread
    /\ pc = [t \in Threads |-> IF t \in callers THEN "idle" ELSE "off"]
    /\ op = [t \in Threads |-> IdleOp]
    /\ prog = [t \in Threads |-> <<>>]
    /\ ret = [t \in Threads |-> NoRet]
    /\ clock = 0
    /\ budget = calls
    /\ hist = <<>>
    /\ snap = EmptyStore
    /\ subscribers = EmptyMap
    /\ subscriptions = <<>>
    /\ pub = NoPub
    /\ outcome = NoOutcome
    /\ subsLeft = MaxSubs
    /\ subLog = <<>>
    /\ connections = EmptyMap
    /\ routerLock = NoThread
    /\ rt = [t \in Threads |-> IdleCall]
    /\ connName = <<>>
    /\ closed = {}
    /\ getsLeft = MaxGets
    /\ fetched = [t \in Threads |-> [name |-> NoName, conn |-> NoConn]]

Init == InitWith(Threads, MaxOps)

InitSeq == InitWith({"t1"}, MaxSeqOps)

InitFew == InitWith(Threads, MaxFewOps)

\* the hubs and the router are used while no thread uses the store
InitBus == InitWith({}, 0)

\* a thread that is not inside a call; after telemetry_events it still holds
\* the list that call returned
CanCall(t) == pc[t] \in {"idle", "returned"}

\* with self._lock: entering the locked body of call c with statements body
Enter(t, c, body, logged, result) ==
    /\ lockOwner = NoThread
    /\ lockOwner' = t
    /\ pc' = [pc EXCEPT ![t] = "body"]
    /\ op' = [op EXCEPT ![t] = c]
    /\ prog' = [prog EXCEPT ![t] = body]
    /\ ret' = [ret EXCEPT ![t] = result]
    /\ hist' = IF logged THEN Append(hist, c) ELSE hist
    /\ snap' = CurrentStore

\* add_memory_entry, lines 135-136
add_memory_entry(t, key, tags) ==
    /\ CanCall(t)
    /\ budget > 0
    /\ budget' = budget - 1
    /\ Enter(t, [name |-> "add_memory_entry", key |-> key, tags |-> tags],
             add_memory_entry_body(key, tags), TRUE, NoRet)
    /\ UNCHANGED <<relations, nodes, events, error_stats, clock>>
    /\ UNCHANGED <<busVars, routerVars>>

\* add_gpt_insight, lines 159-160
add_gpt_insight(t, key, a) ==
    /\ CanCall(t)
    /\ budget > 0
    /\ budget' = budget - 1
    /\ Enter(t, [name |-> "add_gpt_insight", key |-> key, bots |-> a.bots,
                 code_paths |-> a.code_paths,
                 error_categories |-> a.error_categories],
             add_gpt_insight_body(key, a.bots, a.code_paths, a.error_categories),
             TRUE, NoRet)
    /\ UNCHANGED <<relations, nodes, events, error_stats, clock>>
    /\ UNCHANGED <<busVars, routerVars>>

\* add_telemetry_event, lines 191-203: the record is built before the lock
add_telemetry_event(t, bot, event_type, a) ==
    /\ CanCall(t)
    /\ budget > 0
    /\ budget' = budget - 1
    /\ clock' = clock + 1
    /\ pc' = [pc EXCEPT ![t] = "pending"]
    /\ op' = [op EXCEPT ![t] =
                [name |-> "add_telemetry_event",
                 record |-> TelemetryEvent(bot, event_type, a.module, a.resolved, clock),
                 module_node |-> module_node_of(a.module),
                 mods |-> a.mods]]
    /\ ret' = [ret EXCEPT ![t] = NoRet]
    /\ UNCHANGED <<relations, nodes, events, error_stats, lockOwner, prog, hist, snap>>
    /\ UNCHANGED <<busVars, routerVars>>

\* add_telemetry_event, line 204
add_telemetry_event_lock(t) ==
    /\ pc[t] = "pending"
    /\ op[t].name = "add_telemetry_event"
    /\ Enter(t, op[t],
             add_telemetry_event_body(op[t].record, op[t].module_node, op[t].mods),
             TRUE, NoRet)
    /\ UNCHANGED <<relations, nodes, events, error_stats, clock, budget>>
    /\ UNCHANGED <<busVars, routerVars>>

\* faulty related: the table is read without taking self._lock
related_nolock(t, a) ==
    /\ CanCall(t)
    /\ pc' = [pc EXCEPT ![t] = "returned"]
    /\ op' = [op EXCEPT ![t] = [name |-> "related", node |-> a.node,
                                limit |-> a.limit, key |-> normalise_tag(a.node)]]
    /\ ret' = [ret EXCEPT ![t] =
                 RetNames(related_result(relations, normalise_tag(a.node), a.limit))]
    /\ UNCHANGED <<relations, nodes, events, error_stats, lockOwner, prog, clock,
                   budget, hist, snap>>
    /\ UNCHANGED <<busVars, routerVars>>

\* related, lines 228-233: the lock is taken and the answer computed under it
related(t, a) ==
    /\ CanCall(t)
    /\ Enter(t, [name |-> "related", node |-> a.node, limit |-> a.limit,
                 key |-> normalise_tag(a.node)],
             <<>>, FALSE,
             RetNames(related_result(relations, normalise_tag(a.node), a.limit)))
    /\ relations' = relations_after_get(relations, normalise_tag(a.node))
    /\ UNCHANGED <<nodes, events, error_stats, clock, budget>>
    /\ UNCHANGED <<busVars, routerVars>>

\* error_stats, lines 277-278: dict(self._error_stats) under the lock
error_stats_get(t) ==
    /\ CanCall(t)
    /\ Enter(t, [name |-> "error_stats"], <<>>, FALSE, RetStats(error_stats))
    /\ UNCHANGED <<relations, nodes, events, error_stats, clock, budget>>
    /\ UNCHANGED <<busVars, routerVars>>

\* telemetry_events, line 271: list(self._events), without the lock
telemetry_events(t) ==
    /\ CanCall(t)
    /\ pc' = [pc EXCEPT ![t] = "returned"]
    /\ op' = [op EXCEPT ![t] = [name |-> "telemetry_events"]]
    /\ ret' = [ret EXCEPT ![t] = RetLog(events)]
    /\ UNCHANGED <<relations, nodes, events, error_stats, lockOwner, prog, clock,
                   budget, hist, snap>>
    /\ UNCHANGED <<busVars, routerVars>>

\* update_error_stats, lines 244-260: the candidates are read before the lock
update_error_stats(t, error_db) ==
    /\ CanCall(t)
    /\ budget > 0
    /\ budget' = budget - 1
    /\ pc' = [pc EXCEPT ![t] = "pending"]
    /\ op' = [op EXCEPT ![t] =
                [name |-> "update_error_stats", error_db |-> error_db,
                 data |-> first_mapping(error_db)]]
    /\ ret' = [ret EXCEPT ![t] = NoRet]
    /\ UNCHANGED <<relations, nodes, events, error_stats, lockOwner, prog, clock,
                   hist, snap>>
    /\ UNCHANGED <<busVars, routerVars>>

\* update_error_stats, line 261
update_error_stats_lock(t) ==
    /\ pc[t] = "pending"
    /\ op[t].name = "update_error_stats"
    /\ op[t].data.found
    /\ Enter(t, op[t], <<StReplace>>, TRUE, NoRet)
    /\ UNCHANGED <<relations, nodes, events, error_stats, clock, budget>>
    /\ UNCHANGED <<busVars, routerVars>>

\* update_error_stats, lines 245 and 251-263: nothing yields a mapping
update_error_stats_none(t) ==
    /\ pc[t] = "pending"
    /\ op[t].name = "update_error_stats"
    /\ ~op[t].data.found
    /\ pc' = [pc EXCEPT ![t] = "idle"]
    /\ op' = [op EXCEPT ![t] = IdleOp]
    /\ UNCHANGED <<relations, nodes, events, error_stats, lockOwner, prog, ret,
                   clock, budget, hist, snap>>
    /\ UNCHANGED <<busVars, routerVars>>

\* ------------------------------------------------------------------------
\* the statements of a locked body
Running(t, kind) ==
    /\ pc[t] = "body"
    /\ lockOwner = t
    /\ prog[t] # <<>>
    /\ Head(prog[t]).k = kind

Advance(t) == prog' = [prog EXCEPT ![t] = Tail(@)]

\* _ensure_node: self.graph.add_node(node, **attrs)
ensure_node(t) ==
    /\ Running(t, "ensure")
    /\ nodes' = add_node(nodes, Head(prog[t]).a, Head(prog[t]).attrs)
    /\ Advance(t)
    /\ UNCHANGED <<relations, events, error_stats, lockOwner, pc, op, ret, clock,
                   budget, hist, snap>>
    /\ UNCHANGED <<busVars, routerVars>>

\* _link, line 111 or line 112
link_write(t) ==
    /\ Running(t, "rel")
    /\ relations' = relation_add(relations, Head(prog[t]).a, Head(prog[t]).b,
                                 Head(prog[t]).w)
    /\ Advance(t)
    /\ UNCHANGED <<nodes, events, error_stats, lockOwner, pc, op, ret, clock,
                   budget, hist, snap>>
    /\ UNCHANGED <<busVars, routerVars>>

\* _link, lines 113-121: add_edge(src, dst) and add_edge(dst, src), each of
\* which adds both end nodes (_SimpleDiGraph.add_edge)
add_edge(t) ==
    /\ Running(t, "edge")
    /\ nodes' = add_node(add_node(nodes, Head(prog[t]).a, EmptyMap),
                         Head(prog[t]).b, EmptyMap)
    /\ Advance(t)
    /\ UNCHANGED <<relations, events, error_stats, lockOwner, pc, op, ret, clock,
                   budget, hist, snap>>
    /\ UNCHANGED <<busVars, routerVars>>

\* add_telemetry_event, line 205
append_event(t) ==
    /\ Running(t, "append")
    /\ events' = events_append(events, op[t].record)
    /\ Advance(t)
    /\ UNCHANGED <<relations, nodes, error_stats, lockOwner, pc, op, ret, clock,
                   budget, hist, snap>>
    /\ UNCHANGED <<busVars, routerVars>>

\* add_telemetry_event, lines 216-223
error_pressure(t) ==
    /\ Running(t, "stat")
    /\ error_stats' = error_step(error_stats, Head(prog[t]).a, op[t].record.resolved)
    /\ Advance(t)
    /\ UNCHANGED <<relations, nodes, events, lockOwner, pc, op, ret, clock,
                   budget, hist, snap>>
    /\ UNCHANGED <<busVars, routerVars>>

\* update_error_stats, line 262; int(v) raising leaves the counter as it was
\* and the exception leaves the with block
replace_error_stats(t) ==
    /\ Running(t, "replace")
    /\ IF convertible(op[t].data.items)
       THEN /\ error_stats' = converted(op[t].data.items)
            /\ ret' = [ret EXCEPT ![t] = RetNone]
       ELSE /\ error_stats' = error_stats
            /\ ret' = [ret EXCEPT ![t] = Raised]
    /\ Advance(t)
    /\ UNCHANGED <<relations, nodes, events, lockOwner, pc, op, clock,
                   budget, hist, snap>>
    /\ UNCHANGED <<busVars, routerVars>>

\* faulty release: the early return of add_memory_entry at line 139 leaves
\* the lock held
release_leaky(t) ==
    /\ pc[t] = "body"
    /\ lockOwner = t
    /\ prog[t] = <<>>
    /\ lockOwner' = IF op[t].name = "add_memory_entry" /\ op[t].tags = <<>>
                    THEN t ELSE NoThread
    /\ pc' = [pc EXCEPT ![t] = "idle"]
    /\ op' = [op EXCEPT ![t] = IdleOp]
    /\ ret' = [ret EXCEPT ![t] = NoRet]
    /\ UNCHANGED <<relations, nodes, events, error_stats, prog, clock, budget,
                   hist, snap>>
    /\ UNCHANGED <<busVars, routerVars>>

\* leaving the with block: the lock is released and the call returns
release(t) ==
    /\ pc[t] = "body"
    /\ lockOwner = t
    /\ prog[t] = <<>>
    /\ lockOwner' = NoThread
    /\ pc' = [pc EXCEPT ![t] = "idle"]
    /\ op' = [op EXCEPT ![t] = IdleOp]
    /\ ret' = [ret EXCEPT ![t] = NoRet]
    /\ UNCHANGED <<relations, nodes, events, error_stats, prog, clock, budget,
                   hist, snap>>
    /\ UNCHANGED <<busVars, routerVars>>

Ingest(t) ==
    \/ \E key \in Keys, tags \in TagLists : add_memory_entry(t, key, tags)
    \/ \E key \in Keys, a \in InsightArgs : add_gpt_insight(t, key, a)
    \/ \E bot \in Bots, event_type \in EventTypes, a \in TelemetryArgs :
            add_telemetry_event(t, bot, event_type, a)
    \/ add_telemetry_event_lock(t)
    \/ ensure_node(t)
    \/ link_write(t)
    \/ add_edge(t)
    \/ append_event(t)
    \/ error_pressure(t)
    \/ release(t)

Query(t) ==
    \/ \E a \in RelatedArgs : related(t, a)
    \/ error_stats_get(t)
    \/ telemetry_events(t)

Sync(t) ==
    \/ \E error_db \in Sources : update_error_stats(t, error_db)
    \/ update_error_stats_lock(t)
    \/ update_error_stats_none(t)
    \/ replace_error_stats(t)

Next == \E t \in Threads : Ingest(t) \/ Query(t) \/ Sync(t)

\* two caller threads
Spec == Init /\ [][Next]_vars

\* one caller thread
SpecSeq == InitSeq /\ [][Next]_vars

\* the store without an external error database: ingestion and queries only
NextIngest == \E t \in Threads : Ingest(t) \/ Query(t)

SpecIngest == Init /\ [][NextIngest]_vars

SpecSeqIngest == InitSeq /\ [][NextIngest]_vars

\* what the scheduler sees of the threads; every statement changes it
sched == <<lockOwner, pc, prog>>

\* A caller writes to a value it was returned: ev = kg.telemetry_events[i]
\* and then ev.resolved = True.  list(self._events) (line 271) copies the
\* list, not the _TelemetryEvent objects (lines 67-75, a dataclass that is not
\* frozen), so element i of every returned list, element i of self._events
\* and the local variable record of the call that appended it are one object.
caller_writes_event(t, i) ==
    /\ pc[t] = "returned"
    /\ i \in DOMAIN ret[t].log
    /\ events[i].resolved # "True"
    /\ events' = [events EXCEPT ![i].resolved = "True"]
    /\ ret' = [u \in Threads |->
                 IF pc[u] = "returned" /\ i \in DOMAIN ret[u].log
                 THEN [ret[u] EXCEPT !.log[i].resolved = "True"]
                 ELSE ret[u]]
    /\ op' = [u \in Threads |->
                 IF /\ pc[u] = "body"
                    /\ op[u].name = "add_telemetry_event"
                    /\ i = Len(events)
                    /\ (prog[u] = <<>> \/ Head(prog[u]).k # "append")
                 THEN [op[u] EXCEPT !.record.resolved = "True"]
                 ELSE op[u]]
    /\ UNCHANGED <<relations, nodes, error_stats, lockOwner, pc, prog, clock,
                   budget, hist, snap>>
    /\ UNCHANGED <<busVars, routerVars>>

\* a caller that writes to the event records it was returned
CallerWrite == \E t \in Threads : \E i \in DOMAIN events : caller_writes_event(t, i)

NextWithCallers == Next \/ CallerWrite

\* the store used by callers that write to what they were returned
SpecCallers == InitFew /\ [][NextWithCallers]_vars

\* argument lists of a direct call of the linking primitive that have fewer
\* than two distinct non-empty ids
LinkArgs ==
    { <<>>,
      <<EmptyStr>>,
      <<<<"bot:", "bot2">>>>,
      <<<<"bot:", "bot2">>, <<"bot:", "bot2">>>>,
      <<EmptyStr, <<"memory:", "k1">>, EmptyStr>> }

\* self._link(*nodes, weight=1.0), lines 104-121, called by a caller that
\* holds self._lock as the public methods do
link_call(t, ns) ==
    /\ CanCall(t)
    /\ Enter(t, [name |-> "_link", nodes |-> ns, weight |-> W1], link(ns, W1),
             FALSE, NoRet)
    /\ UNCHANGED <<relations, nodes, events, error_stats, clock, budget>>
    /\ UNCHANGED <<busVars, routerVars>>

NextWithLink == Next \/ \E t \in Threads : \E ns \in LinkArgs : link_call(t, ns)

\* the store with direct calls of the linking primitive
SpecLink == InitFew /\ [][NextWithLink]_vars

\* thread t, waiting at with self._lock, gets the lock
Acquire(t) == add_telemetry_event_lock(t) \/ update_error_stats_lock(t)

\* thread t runs the next statement of the call it is in, the lock being
\* its own or not needed
Step(t) ==
    \/ ensure_node(t)
    \/ link_write(t)
    \/ add_edge(t)
    \/ append_event(t)
    \/ error_pressure(t)
    \/ replace_error_stats(t)
    \/ release(t)
    \/ update_error_stats_none(t)

\* the scheduler lets every thread run (weak fairness); threading.RLock
\* promises no order among the threads that wait for it
SpecFair ==
    /\ InitFew
    /\ [][Next]_vars
    /\ \A t \in Threads : WF_sched(Step(t)) /\ WF_sched(Acquire(t))

\* ------------------------------------------------------------------------
\* publish/subscribe: UnifiedEventBus (unified_event_bus.py) and
\* _MemoryManager (db_router.py)

UnifiedEventBus == "UnifiedEventBus"
MemoryManager == "_MemoryManager"

Topics == {"alerts", "patches"}

\* the callbacks in use: ok returns; boom raises an Exception; joiner
\* subscribes late to the topic it is called with, on the hub that called it,
\* as long as the callers may still subscribe; late returns
Callables == {"ok", "boom", "joiner", "late"}

\* values that are not callable
NotCallables == {"42", "None"}

callable(cb) == cb \in Callables

\* callback(topic, payload) raises an Exception
raises(cb) == cb = "boom"

\* self._subscribers[topic].append(callback) on a defaultdict(list)
bus_append(subs, topic, cb) == Put(subs, topic, Append(Get(subs, topic, <<>>), cb))

\* faulty UnifiedEventBus.subscribe: the callback is stored before it is checked
bus_subscribe_result_unchecked(subs, topic, cb) ==
    [raised |-> ~callable(cb), subs |-> bus_append(subs, topic, cb)]

\* UnifiedEventBus.subscribe, lines 29-32
bus_subscribe_result(subs, topic, cb) ==
    IF ~callable(cb)
    THEN [raised |-> TRUE, subs |-> subs]
    ELSE [raised |-> FALSE, subs |-> bus_append(subs, topic, cb)]

\* _MemoryManager.subscribe, lines 47-51
mm_subscribe_result(subs, topic, cb) ==
    IF ~callable(cb)
    THEN [raised |-> TRUE, subs |-> subs]
    ELSE [raised |-> FALSE,
          subs |-> Append(subs, [topic |-> topic, callback |-> cb])]

\* faulty snapshot: the callbacks of every topic
bus_callbacks_alltopics(subs, topic) ==
    LET first == Get(subs, "alerts", <<>>)
        second == Get(subs, "patches", <<>>)
    IN  first \o second

\* callbacks = list(self._subscribers.get(topic, ())), line 21
bus_callbacks(subs, topic) == Get(subs, topic, <<>>)

\* callbacks = [s.callback for s in self._subscriptions if s.topic == topic]
RECURSIVE mm_callbacks(_, _)
mm_callbacks(subs, topic) ==
    IF subs = <<>> THEN <<>>
    ELSE LET s == Head(subs)
         IN  (IF s.topic = topic THEN <<s.callback>> ELSE <<>>)
                \o mm_callbacks(Tail(subs), topic)

\* the loop goes on after callback(topic, payload) returned
callback_returned(p, cb) ==
    [p EXCEPT !.i = @ + 1, !.called = Append(@, cb)]

\* except Exception: logger.debug(...), and the loop goes on
callback_failed(p, cb) ==
    [p EXCEPT !.i = @ + 1, !.called = Append(@, cb)]

after_callback(p, cb) ==
    IF raises(cb) THEN callback_failed(p, cb) ELSE callback_returned(p, cb)

\* what the callback does to the caller's allowance of subscriptions
Joins(cb) == cb = "joiner" /\ subsLeft > 0

Subscribed(hub, topic, cb) ==
    /\ subsLeft' = subsLeft - 1
    /\ subLog' = Append(subLog, [hub |-> hub, topic |-> topic, callback |-> cb])

\* UnifiedEventBus.subscribe(topic, callback) by a caller
bus_subscribe(topic, cb) ==
    /\ callable(cb) => subsLeft > 0
    /\ LET r == bus_subscribe_result(subscribers, topic, cb)
       IN  /\ subscribers' = r.subs
           /\ outcome' = [hub |-> UnifiedEventBus, call |-> "subscribe",
                          value |-> IF r.raised THEN "TypeError" ELSE "None"]
           /\ IF r.raised
              THEN UNCHANGED <<subsLeft, subLog>>
              ELSE Subscribed(UnifiedEventBus, topic, cb)
    /\ UNCHANGED <<subscriptions, pub>>
    /\ UNCHANGED <<kgVars, routerVars>>

\* _MemoryManager.subscribe(topic, callback) by a caller; the append under
\* with self._lock is one step
mm_subscribe(topic, cb) ==
    /\ callable(cb) => subsLeft > 0
    /\ LET r == mm_subscribe_result(subscriptions, topic, cb)
       IN  /\ subscriptions' = r.subs
           /\ outcome' = [hub |-> MemoryManager, call |-> "subscribe",
                          value |-> IF r.raised THEN "TypeError" ELSE "None"]
           /\ IF r.raised
              THEN UNCHANGED <<subsLeft, subLog>>
              ELSE Subscribed(MemoryManager, topic, cb)
    /\ UNCHANGED <<subscribers, pub>>
    /\ UNCHANGED <<kgVars, routerVars>>

\* UnifiedEventBus.publish(topic, payload), line 21: the list is copied
bus_publish(topic) ==
    /\ ~pub.active
    /\ pub' = [active |-> TRUE, hub |-> UnifiedEventBus, topic |-> topic,
               callbacks |-> bus_callbacks(subscribers, topic), i |-> 1,
               called |-> <<>>, start |-> Len(subLog)]
    /\ UNCHANGED <<subscribers, subscriptions, outcome, subsLeft, subLog>>
    /\ UNCHANGED <<kgVars, routerVars>>

\* _MemoryManager.publish(topic, payload), lines 54-55: the callbacks are
\* collected under with self._lock, in one step
mm_publish(topic) ==
    /\ ~pub.active
    /\ pub' = [active |-> TRUE, hub |-> MemoryManager, topic |-> topic,
               callbacks |-> mm_callbacks(subscriptions, topic), i |-> 1,
               called |-> <<>>, start |-> Len(subLog)]
    /\ UNCHANGED <<subscribers, subscriptions, outcome, subsLeft, subLog>>
    /\ UNCHANGED <<kgVars, routerVars>>

\* UnifiedEventBus.publish, lines 22-26: the next callback is called
bus_publish_call ==
    /\ pub.active
    /\ pub.hub = UnifiedEventBus
    /\ pub.i <= Len(pub.callbacks)
    /\ LET cb == pub.callbacks[pub.i]
       IN  /\ pub' = after_callback(pub, cb)
           /\ IF Joins(cb)
              THEN /\ subscribers' =
                        bus_subscribe_result(subscribers, pub.topic, "late").subs
                   /\ Subscribed(UnifiedEventBus, pub.topic, "late")
              ELSE UNCHANGED <<subscribers, subsLeft, subLog>>
    /\ UNCHANGED <<subscriptions, outcome>>
    /\ UNCHANGED <<kgVars, routerVars>>

\* _MemoryManager.publish, lines 56-60: the next callback is called, outside
\* the lock
mm_publish_call ==
    /\ pub.active
    /\ pub.hub = MemoryManager
    /\ pub.i <= Len(pub.callbacks)
    /\ LET cb == pub.callbacks[pub.i]
       IN  /\ pub' = after_callback(pub, cb)
           /\ IF Joins(cb)
              THEN /\ subscriptions' =
                        mm_subscribe_result(subscriptions, pub.topic, "late").subs
                   /\ Subscribed(MemoryManager, pub.topic, "late")
              ELSE UNCHANGED <<subscriptions, subsLeft, subLog>>
    /\ UNCHANGED <<subscribers, outcome>>
    /\ UNCHANGED <<kgVars, routerVars>>

\* UnifiedEventBus.publish, line 27: return True
bus_publish_return ==
    /\ pub.active
    /\ pub.hub = UnifiedEventBus
    /\ pub.i > Len(pub.callbacks)
    /\ pub' = NoPub
    /\ outcome' = [hub |-> UnifiedEventBus, call |-> "publish", value |-> "True"]
    /\ UNCHANGED <<subscribers, subscriptions, subsLeft, subLog>>
    /\ UNCHANGED <<kgVars, routerVars>>

\* _MemoryManager.publish falls off its end: None
mm_publish_return ==
    /\ pub.active
    /\ pub.hub = MemoryManager
    /\ pub.i > Len(pub.callbacks)
    /\ pub' = NoPub
    /\ outcome' = [hub |-> MemoryManager, call |-> "publish", value |-> "None"]
    /\ UNCHANGED <<subscribers, subscriptions, subsLeft, subLog>>
    /\ UNCHANGED <<kgVars, routerVars>>

NextBus ==
    \/ \E topic \in Topics, cb \in {"ok", "boom", "joiner"} \cup NotCallables :
            bus_subscribe(topic, cb)
    \/ \E topic \in Topics, cb \in {"ok", "boom", "joiner"} \cup NotCallables :
            mm_subscribe(topic, cb)
    \/ \E topic \in Topics : bus_publish(topic)
    \/ \E topic \in Topics : mm_publish(topic)
    \/ bus_publish_call
    \/ mm_publish_call
    \/ bus_publish_return
    \/ mm_publish_return

\* the two hubs, with callers that subscribe and publish in any order
SpecBus == InitBus /\ [][NextBus]_vars

\* ------------------------------------------------------------------------
\* DBRouter (db_router.py): the connection cache

Names == {"local", "shared"}
\* faulty get_connection: the cache is read without self._lock
get_connection_nolock(t) ==
    /\ rt[t].pc = "get_wait"
    /\ rt' = [rt EXCEPT ![t].pc = "get_locked",
                        ![t].conn = Get(connections, rt[t].name, NoConn)]
    /\ UNCHANGED <<connections, routerLock, connName, closed, getsLeft, fetched>>
    /\ UNCHANGED <<kgVars, busVars>>

\* get_connection(name) is called
get_connection(t, name) ==
    /\ rt[t].pc = "idle"
    /\ getsLeft > 0
    /\ getsLeft' = getsLeft - 1
    /\ rt' = [rt EXCEPT ![t] = [IdleCall EXCEPT !.pc = "get_wait", !.name = name]]
    /\ UNCHANGED <<connections, routerLock, connName, closed, fetched>>
    /\ UNCHANGED <<kgVars, busVars>>

\* lines 134-135: with self._lock: conn = self._connections.get(name)
get_connection_lock(t) ==
    /\ rt[t].pc = "get_wait"
    /\ routerLock = NoThread
    /\ routerLock' = t
    /\ rt' = [rt EXCEPT ![t].pc = "get_locked",
                        ![t].conn = Get(connections, rt[t].name, NoConn)]
    /\ UNCHANGED <<connections, connName, closed, getsLeft, fetched>>
    /\ UNCHANGED <<kgVars, busVars>>

\* lines 136-137: conn = self._create_connection(name)
create_connection(t) ==
    /\ rt[t].pc = "get_locked"
    /\ rt[t].conn = NoConn
    /\ connName' = Append(connName, rt[t].name)
    /\ rt' = [rt EXCEPT ![t].pc = "get_created", ![t].conn = Len(connName) + 1]
    /\ UNCHANGED <<connections, routerLock, closed, getsLeft, fetched>>
    /\ UNCHANGED <<kgVars, busVars>>

\* line 126: sqlite3.connect raises; the with block releases the lock and the
\* error reaches the caller
create_connection_fails(t) ==
    /\ rt[t].pc = "get_locked"
    /\ rt[t].conn = NoConn
    /\ routerLock' = IF routerLock = t THEN NoThread ELSE routerLock
    /\ rt' = [rt EXCEPT ![t] = IdleCall]
    /\ fetched' = [fetched EXCEPT ![t] = [name |-> rt[t].name, conn |-> NoConn]]
    /\ UNCHANGED <<connections, connName, closed, getsLeft>>
    /\ UNCHANGED <<kgVars, busVars>>

\* line 138: self._connections[name] = conn
store_connection(t) ==
    /\ rt[t].pc = "get_created"
    /\ connections' = Put(connections, rt[t].name, rt[t].conn)
    /\ rt' = [rt EXCEPT ![t].pc = "get_stored"]
    /\ UNCHANGED <<routerLock, connName, closed, getsLeft, fetched>>
    /\ UNCHANGED <<kgVars, busVars>>

\* line 139: the lock is released and conn is returned
get_connection_return(t) ==
    /\ \/ rt[t].pc = "get_stored"
       \/ rt[t].pc = "get_locked" /\ rt[t].conn # NoConn
    /\ routerLock' = IF routerLock = t THEN NoThread ELSE routerLock
    /\ fetched' = [fetched EXCEPT ![t] = [name |-> rt[t].name, conn |-> rt[t].conn]]
    /\ rt' = [rt EXCEPT ![t] = IdleCall]
    /\ UNCHANGED <<connections, connName, closed, getsLeft>>
    /\ UNCHANGED <<kgVars, busVars>>

\* close(name) or close() is called
close(t, name) ==
    /\ rt[t].pc = "idle"
    /\ rt' = [rt EXCEPT ![t] = [IdleCall EXCEPT !.pc = "close_wait", !.name = name]]
    /\ UNCHANGED <<connections, routerLock, connName, closed, getsLeft, fetched>>
    /\ UNCHANGED <<kgVars, busVars>>

\* lines 152-153 and 157-158: with self._lock, and the branch on name
close_lock(t) ==
    /\ rt[t].pc = "close_wait"
    /\ routerLock = NoThread
    /\ routerLock' = t
    /\ rt' = [rt EXCEPT
                ![t].pc = IF rt[t].name # NoName THEN "close_one" ELSE "close_all",
                ![t].todo = {connections[n] : n \in DOMAIN connections}]
    /\ UNCHANGED <<connections, connName, closed, getsLeft, fetched>>
    /\ UNCHANGED <<kgVars, busVars>>

\* lines 154-156: conn = self._connections.pop(name, None), conn.close()
close_pop(t) ==
    /\ rt[t].pc = "close_one"
    /\ LET conn == Get(connections, rt[t].name, NoConn)
       IN  /\ connections' = [n \in DOMAIN connections \ {rt[t].name} |->
                                connections[n]]
           /\ closed' = IF conn # NoConn THEN closed \cup {conn} ELSE closed
    /\ rt' = [rt EXCEPT ![t].pc = "close_done"]
    /\ UNCHANGED <<routerLock, connName, getsLeft, fetched>>
    /\ UNCHANGED <<kgVars, busVars>>

\* lines 158-159: the next conn.close() of the loop over the cached values
close_each(t) ==
    /\ rt[t].pc = "close_all"
    /\ rt[t].todo # {}
    /\ \E conn \in rt[t].todo :
        /\ \A other \in rt[t].todo : conn <= other
        /\ closed' = closed \cup {conn}
        /\ rt' = [rt EXCEPT ![t].todo = @ \ {conn}]
    /\ UNCHANGED <<connections, routerLock, connName, getsLeft, fetched>>
    /\ UNCHANGED <<kgVars, busVars>>

\* line 160: self._connections.clear()
close_clear(t) ==
    /\ rt[t].pc = "close_all"
    /\ rt[t].todo = {}
    /\ connections' = EmptyMap
    /\ rt' = [rt EXCEPT ![t].pc = "close_done"]
    /\ UNCHANGED <<routerLock, connName, closed, getsLeft, fetched>>
    /\ UNCHANGED <<kgVars, busVars>>

\* the with block of close ends
close_return(t) ==
    /\ rt[t].pc = "close_done"
    /\ routerLock' = NoThread
    /\ rt' = [rt EXCEPT ![t] = IdleCall]
    /\ UNCHANGED <<connections, connName, closed, getsLeft, fetched>>
    /\ UNCHANGED <<kgVars, busVars>>

NextRouter ==
    \E t \in Threads :
        \/ \E name \in Names : get_connection(t, name)
        \/ get_connection_lock(t)
        \/ create_connection(t)
        \/ create_connection_fails(t)
        \/ store_connection(t)
        \/ get_connection_return(t)
        \/ \E name \in Names \cup {NoName} : close(t, name)
        \/ close_lock(t)
        \/ close_pop(t)
        \/ close_each(t)
        \/ close_clear(t)
        \/ close_return(t)

\* the router used by two threads
SpecRouter == InitBus /\ [][NextRouter]_vars

\* ------------------------------------------------------------------------
\* properties

\* every node id that occurs in the relation table
RelNodes ==
    DOMAIN relations
    \cup UNION {CounterNames(relations[a]) : a \in DOMAIN relations}

\* no thread is inside the locked body of a mutating call, so a thread that
\* takes or holds the lock to read sees this state
ReaderMayObserve ==
    \/ lockOwner = NoThread
    \/ op[lockOwner].name \in {"related", "error_stats"}

Holding(t, name) == pc[t] = "body" /\ lockOwner = t /\ op[t].name = name

\* the locked body of the call of thread t has run to its end
BodyDone(t, name) == Holding(t, name) /\ prog[t] = <<>>

\* C1: in every state a reader holding the lock can observe, the accumulated
\* weight from a to b equals the weight from b to a, for all node ids a, b,
\* whatever ingestion calls the two threads have interleaved.
C1_Symmetry ==
    ReaderMayObserve =>
        \A a \in RelNodes : \A b \in RelNodes :
            Weight(relations, a, b) = Weight(relations, b, a)

\* C1 witness: a related call holds the lock after two ingestion calls
\* linked nodes, while the other thread is inside a call of its own
C1_Witness ==
    \E t \in Threads :
        /\ Holding(t, "related")
        /\ Len(hist) = 2
        /\ \E a \in RelNodes : \E b \in RelNodes : Weight(relations, a, b) > W1
        /\ \E u \in Threads \ {t} : pc[u] = "returned"

\* C2: no node id ever has a relation entry to itself, in any state, also
\* inside a locked body and for calls whose id list holds duplicates.
C2_NoSelfLoops ==
    \A a \in DOMAIN relations : a \notin CounterNames(relations[a])

HasDuplicateIds(c) ==
    \/ /\ c.name = "add_memory_entry"
       /\ memory_node(c.key) \in SeqToSet(c.tags)
    \/ /\ c.name = "add_gpt_insight"
       /\ Len(c.bots) > Cardinality(SeqToSet(c.bots))
    \/ /\ c.name = "add_telemetry_event"
       /\ c.module_node \in {code_node(c.mods[i]) : i \in DOMAIN c.mods}

\* C2 witness: calls with a tag equal to the memory node id, with a repeated
\* bot and with a related module equal to the module have all finished
C2_Witness ==
    /\ lockOwner = NoThread
    /\ \E i \in DOMAIN hist : hist[i].name = "add_memory_entry" /\ HasDuplicateIds(hist[i])
    /\ \E i \in DOMAIN hist : hist[i].name # "add_memory_entry" /\ HasDuplicateIds(hist[i])

\* C3: whatever the order of resolved and unresolved add_telemetry_event
\* calls (a resolved event for a module never seen before included), no
\* module's error-pressure counter is below 0 in any state.
C3_ErrorPressureFloor ==
    \A m \in DOMAIN error_stats : error_stats[m] >= 0

\* C3 witness: a resolved event has just been counted for a module whose
\* counter was 0 or absent, after an earlier telemetry call
C3_Witness ==
    \E t \in Threads :
        /\ BodyDone(t, "add_telemetry_event")
        /\ op[t].record.resolved = "True"
        /\ Get(snap.error_stats, op[t].module_node, 0) = 0
        /\ error_stats[op[t].module_node] = 0
        /\ Len(events) >= 2

\* C4: the mapping error_stats returns has a non-negative count under every
\* key, after any sequence of store operations, update_error_stats with an
\* arbitrary external mapping included.
C4_SnapshotNonNegative ==
    \A t \in Threads :
        Holding(t, "error_stats") =>
            \A key \in DOMAIN ret[t].stats : ret[t].stats[key] >= 0

\* the fold of C5 over the recorded events, in log order
RecomputeKey(module) ==
    IF Head(module) = "code:" THEN module ELSE <<"code:">> \o module

RECURSIVE Recompute(_, _)
Recompute(log, acc) ==
    IF log = <<>> THEN acc
    ELSE LET e == Head(log)
             key == RecomputeKey(e.module)
             old == IF key \in DOMAIN acc THEN acc[key] ELSE 0
             new == IF e.resolved = "True"
                    THEN (IF old >= 1 THEN old - 1 ELSE 0)
                    ELSE old + 1
         IN  IF e.module = None THEN Recompute(Tail(log), acc)
             ELSE Recompute(Tail(log),
                      [x \in DOMAIN acc \cup {key} |->
                          IF x = key THEN new ELSE acc[x]])

NoSyncYet == \A i \in DOMAIN hist : hist[i].name # "update_error_stats"

\* C5 as claimed: in every state the mapping returned by error_stats is the
\* fold of the event log.
C5_RecomputableAlways ==
    \A t \in Threads :
        Holding(t, "error_stats") => ret[t].stats = Recompute(events, EmptyMap)

\* C5 as amended: as long as no update_error_stats call has entered its
\* locked replacement, the mapping returned by error_stats is the fold of the
\* event log in log order (code:<name> keys, +1 for resolved false or absent,
\* -1 floored at 0 for resolved true, events without a module skipped).
C5_RecomputableUntilSync ==
    \A t \in Threads :
        (Holding(t, "error_stats") /\ NoSyncYet) =>
            ret[t].stats = Recompute(events, EmptyMap)

\* C5 witness: error_stats is read while the log holds two events with a
\* module that two threads appended
C5_Witness ==
    \E t \in Threads :
        /\ Holding(t, "error_stats")
        /\ NoSyncYet
        /\ Len(events) = 2
        /\ \A i \in DOMAIN events : events[i].module # None
        /\ events[1].timestamp > events[2].timestamp
        /\ ret[t].stats # EmptyMap

\* no thread is inside a call
AllReturned == \A t \in Threads : pc[t] \in {"off", "idle", "returned"}

IsUnresolvedFor(c, module) ==
    /\ c.name = "add_telemetry_event"
    /\ c.record.module = module
    /\ c.record.resolved # "True"

IsResolvedFor(c, node) ==
    /\ c.name = "add_telemetry_event"
    /\ c.record.module # None
    /\ RecomputeKey(c.record.module) = node
    /\ c.record.resolved = "True"

\* C6: one add_telemetry_event call appends its event; with a module it sets
\* that module's counter to max(0, old - 1) when resolved is true and to
\* old + 1 when resolved is false or absent and leaves every other counter
\* alone; without a module it leaves the whole mapping alone and still links
\* bot:<bot> to event:<type>.  So n unresolved events for a fresh module give
\* n, and one unresolved followed by one resolved gives 0.
C6_CounterStep ==
    /\ \A t \in Threads :
        BodyDone(t, "add_telemetry_event") =>
            LET rec == op[t].record
                bot == <<"bot:">> \o rec.bot
                event == <<"event:">> \o rec.event_type
            IN  /\ events = Append(snap.events, rec)
                /\ IF rec.module # None
                   THEN LET m == RecomputeKey(rec.module)
                            old == Get(snap.error_stats, m, 0)
                        IN  /\ m \in DOMAIN error_stats
                            /\ error_stats[m] =
                                 IF rec.resolved = "True"
                                 THEN (IF old >= 1 THEN old - 1 ELSE 0)
                                 ELSE old + 1
                            /\ DOMAIN error_stats = DOMAIN snap.error_stats \cup {m}
                            /\ \A k \in DOMAIN error_stats \ {m} :
                                 error_stats[k] = snap.error_stats[k]
                   ELSE /\ error_stats = snap.error_stats
                        /\ Weight(relations, bot, event)
                             = Weight(snap.relations, bot, event) + W1
                        /\ Weight(relations, event, bot)
                             = Weight(snap.relations, event, bot) + W1
    /\ (AllReturned /\ hist # <<>>) =>
        \A module \in {<<"mod_x">>, <<"mod_y">>} :
            /\ (\A i \in DOMAIN hist : IsUnresolvedFor(hist[i], module))
                  => error_stats[RecomputeKey(module)] = Len(hist)
            /\ (/\ Len(hist) = 2
                /\ IsUnresolvedFor(hist[1], module)
                /\ IsResolvedFor(hist[2], RecomputeKey(module)))
                  => error_stats[RecomputeKey(module)] = 0

\* C6 witness: three unresolved events for the fresh module mod_x have been
\* recorded and its counter is 3
C6_Witness ==
    /\ AllReturned
    /\ Len(hist) = 3
    /\ \A i \in DOMAIN hist : IsUnresolvedFor(hist[i], <<"mod_x">>)
    /\ error_stats[<<"code:", "mod_x">>] = 3

TagId(tag) == <<"tag:">> \o tag

IsScenarioA ==
    /\ Len(hist) = 1
    /\ hist[1].name = "add_memory_entry"
    /\ hist[1].key = <<"k1">>
    /\ hist[1].tags = <<<<"alpha">>, <<"beta">>>>

\* C7: on a fresh store after add_memory_entry("k1", ["alpha", "beta"]),
\* related("tag:alpha") returns exactly memory:k1 and tag:beta, with the
\* weights 1.0 and 0.5, and related("memory:k1") returns exactly tag:alpha
\* and tag:beta, with the weight 1.0 each.
C7_ScenarioA ==
    \A t \in Threads :
        (Holding(t, "related") /\ IsScenarioA /\ op[t].limit >= 2) =>
            /\ op[t].node = TagId(<<"alpha">>) =>
                /\ Len(ret[t].names) = 2
                /\ SeqToSet(ret[t].names) = {<<"memory:", "k1">>, TagId(<<"beta">>)}
                /\ Weight(relations, op[t].node, <<"memory:", "k1">>) = W1
                /\ Weight(relations, op[t].node, TagId(<<"beta">>)) = WHalf
            /\ op[t].node = <<"memory:", "k1">> =>
                /\ Len(ret[t].names) = 2
                /\ SeqToSet(ret[t].names) = {TagId(<<"alpha">>), TagId(<<"beta">>)}
                /\ Weight(relations, op[t].node, TagId(<<"alpha">>)) = W1
                /\ Weight(relations, op[t].node, TagId(<<"beta">>)) = W1

\* C8: one add_memory_entry call with the set T of distinct trimmed non-empty
\* tags adds exactly 1.0 to the weight between the memory node and the node
\* of each tag of T, exactly 0.5 to the weight between the nodes of two
\* different tags of T, and nothing to any other weight.  The node of a tag
\* is taken to be the id under which the call registers the tag.
C8_MemoryWeights ==
    \A t \in Threads :
        BodyDone(t, "add_memory_entry") =>
            LET mem == <<"memory:">> \o op[t].key
                T == {normalise_tag(op[t].tags[i]) : i \in DOMAIN op[t].tags} \ {<<>>}
                all == RelNodes \cup T \cup {mem}
                Delta(a, b) == Weight(relations, a, b) - Weight(snap.relations, a, b)
            IN  \A a \in all : \A b \in all :
                    Delta(a, b) =
                        IF (a = mem /\ b \in T) \/ (b = mem /\ a \in T) THEN W1
                        ELSE IF a \in T /\ b \in T /\ a # b THEN WHalf
                        ELSE 0

\* what C9 says of the answer ret[t].names of a related call, read for the node id
\* id: at most limit ids, all neighbours of id with a positive weight, in
\* non-increasing weight order, none omitted that is heavier than a returned
\* one, equal weights in the order of their first link to id
RelatedAnswerFor(t, id) ==
    LET r == ret[t].names
        nb == Get(relations, id, <<>>)
        Pos(n) == CHOOSE i \in DOMAIN nb : nb[i].name = n
    IN  /\ Len(r) <= op[t].limit
        /\ \A i \in DOMAIN r :
              r[i] \in CounterNames(nb) /\ CounterGet(nb, r[i]) > 0
        /\ \A i \in DOMAIN r : \A j \in DOMAIN r :
              i < j => CounterGet(nb, r[i]) >= CounterGet(nb, r[j])
        /\ \A n \in CounterNames(nb) \ SeqToSet(r) : \A i \in DOMAIN r :
              CounterGet(nb, n) <= CounterGet(nb, r[i])
        /\ \A i \in DOMAIN r : \A j \in DOMAIN r :
              (i < j /\ CounterGet(nb, r[i]) = CounterGet(nb, r[j]))
                  => Pos(r[i]) < Pos(r[j])

\* C9 as claimed: the answer of related(node, limit) is as described for the
\* node id passed in.
C9_RelatedOfNode ==
    \A t \in Threads :
        Holding(t, "related") => RelatedAnswerFor(t, op[t].node)

\* C9 as amended: related(node, limit) returns at most limit node ids, all
\* of them neighbours, with a positive accumulated weight, of the node id
\* obtained by trimming the whitespace around node, in non-increasing weight
\* order; no omitted neighbour is heavier than a returned one; neighbours of
\* equal weight appear in the order of their first link to that node.
C9_RelatedOfTrimmedNode ==
    \A t \in Threads :
        Holding(t, "related") => RelatedAnswerFor(t, normalise_tag(op[t].node))

\* C9 witness: related, called with an id that has a blank in front, returns
\* two neighbours of equal weight
C9_Witness ==
    \E t \in Threads :
        /\ Holding(t, "related")
        /\ op[t].node # normalise_tag(op[t].node)
        /\ \E i \in DOMAIN ret[t].names : \E j \in DOMAIN ret[t].names :
              /\ i < j
              /\ Weight(relations, normalise_tag(op[t].node), ret[t].names[i])
                   = Weight(relations, normalise_tag(op[t].node), ret[t].names[j])

\* C10 as claimed: related(n, limit) returns the empty sequence, without an
\* error, whenever the id n passed in is unknown or has no relations.
C10_EmptyForUnknown ==
    \A t \in Threads :
        (Holding(t, "related") /\ Get(relations, op[t].node, <<>>) = <<>>)
            => ret[t].names = <<>>

\* C10 as amended: related(n, limit) returns the empty sequence, without an
\* error, whenever the id obtained by trimming the whitespace around n is
\* unknown or has no relations.
C10_EmptyForUnknownTrimmed ==
    \A t \in Threads :
        (Holding(t, "related")
         /\ Get(relations, normalise_tag(op[t].node), <<>>) = <<>>)
            => ret[t].names = <<>>

\* C10 witness: related is asked for an id that is no node of a store that
\* has relations, and answers with the empty sequence
C10_Witness ==
    \E t \in Threads :
        /\ Holding(t, "related")
        /\ relations # EmptyMap
        /\ normalise_tag(op[t].node) \notin DOMAIN nodes
        /\ ret[t].names = <<>>

\* ------------------------------------------------------------------------
Queries == {"related", "error_stats", "telemetry_events"}

\* thread t takes a step of a query: it calls one, or returns from one
QueryStep(t) ==
    \/ /\ op'[t].name \in Queries
       /\ <<op[t], pc[t], ret[t]>> # <<op'[t], pc'[t], ret'[t]>>
    \/ /\ op[t].name \in Queries
       /\ pc[t] = "body"
       /\ pc'[t] # "body"

\* C11: queries are read-only: no step of related (for a known or an unknown
\* node id), of error_stats or of telemetry_events changes the relation table
\* (its key set included), the node map, the event log or the error-pressure
\* mapping.
C11_QueriesReadOnly ==
    [][(\E t \in Threads : QueryStep(t)) => UNCHANGED store]_vars

\* a related call for an id without an entry holds the lock over a table that
\* has entries, another thread holds a returned event list, and the
\* error-pressure mapping is not empty
C11_Witness ==
    \E t \in Threads : \E u \in Threads :
        /\ Holding(t, "related")
        /\ op[t].key \notin DOMAIN relations
        /\ relations # EmptyMap
        /\ pc[u] = "returned"
        /\ ret[u].log # <<>>
        /\ error_stats # EmptyMap

\* ------------------------------------------------------------------------
IsPrefix(a, b) == Len(a) <= Len(b) /\ SubSeq(b, 1, Len(a)) = a

\* events i and j were reported with the same arguments
SameReport(e, f) ==
    /\ e.bot = f.bot
    /\ e.event_type = f.event_type
    /\ e.module = f.module
    /\ e.resolved = f.resolved

\* C12: the event log only grows by appending: in every step of every
\* interleaving the log before the step is a prefix of the log after it, and
\* every sequence telemetry_events has returned is a prefix of the log, hence
\* of every sequence returned later; nothing is removed, reordered or
\* replaced, and an event reported twice takes two positions.
C12_AppendOnlyLog ==
    [][/\ IsPrefix(events, events')
       /\ \A t \in Threads : pc'[t] = "returned" => IsPrefix(ret'[t].log, events')]_vars

\* a thread holds the one-event list it was returned, and the log has since
\* grown by a second event reported with the same arguments
C12_Witness ==
    \E t \in Threads :
        /\ pc[t] = "returned"
        /\ Len(ret[t].log) = 1
        /\ Len(events) = 2
        /\ SameReport(events[1], events[2])
        /\ ret[t].log[1] = events[1]

\* ------------------------------------------------------------------------
\* the statements of the locked body of a recorded call
BodyOf(c) ==
    CASE c.name = "add_memory_entry" -> add_memory_entry_body(c.key, c.tags)
      [] c.name = "add_gpt_insight" ->
            add_gpt_insight_body(c.key, c.bots, c.code_paths, c.error_categories)
      [] c.name = "add_telemetry_event" ->
            add_telemetry_event_body(c.record, c.module_node, c.mods)
      [] OTHER -> <<>>

\* the relation table after all the statements stmts
RECURSIVE RunRelations(_, _)
RunRelations(rel, stmts) ==
    IF stmts = <<>> THEN rel
    ELSE LET st == Head(stmts)
         IN  RunRelations(IF st.k = "rel" THEN relation_add(rel, st.a, st.b, st.w)
                          ELSE rel,
                          Tail(stmts))

\* the relation table after the first n recorded calls, each applied whole
RECURSIVE WholeCalls(_)
WholeCalls(n) ==
    IF n = 0 THEN EmptyMap
    ELSE RunRelations(WholeCalls(n - 1), BodyOf(hist[n]))

\* C13: pairwise linking is atomic for related: the answer of every related
\* call is the answer over a relation table in which a whole number of the
\* ingestion calls has been applied, each with all its pairs and both
\* directions of every pair; no answer is computed from a table in which a
\* call has linked only some of its pairs or one direction of a pair.
C13_AtomicLinking ==
    \A t \in Threads :
        op[t].name = "related"
            => \E n \in 0 .. Len(hist) :
                   ret[t].names = related_result(WholeCalls(n), op[t].key, op[t].limit)

\* a related call holds the lock and has a non-empty answer while the other
\* thread is inside add_telemetry_event, waiting for the lock
C13_Witness ==
    \E t \in Threads : \E u \in Threads :
        /\ Holding(t, "related")
        /\ ret[t].names # <<>>
        /\ pc[u] = "pending"
        /\ op[u].name = "add_telemetry_event"

\* ------------------------------------------------------------------------
\* C14: capture timestamps increase along the log: in every reachable state
\* the timestamp of each logged event is not earlier than the timestamp of
\* any event before it in the log.
C14_TimestampsMonotone ==
    \A i \in DOMAIN events : \A j \in DOMAIN events :
        i < j => events[i].timestamp <= events[j].timestamp

\* ------------------------------------------------------------------------
\* candidate i of the source db yields a mapping
YieldsMapping(db, i) == ~db[i].raises /\ db[i].isMapping

\* the source db yields the mapping items: items is the data of the first of
\* error_counts, error_stats, counts (candidates 1, 2, 3) that is a mapping
\* or a callable returning one
SourceYields(db, items) ==
    \E i \in DOMAIN db :
        /\ YieldsMapping(db, i)
        /\ \A j \in 1 .. (i - 1) : ~YieldsMapping(db, j)
        /\ items = db[i].items

\* C15: when update_error_stats succeeds, i.e. the source yields a mapping
\* whose values convert to integers, then at the end of the call the
\* error-pressure mapping is exactly that mapping (no key of the previous
\* mapping survives unless the source has it), and relations, nodes and the
\* event log are what they were when the call took the lock.
C15_ReplacesWholesale ==
    \A t \in Threads :
        BodyDone(t, "update_error_stats") =>
            \A i \in DOMAIN op[t].error_db :
                LET items == op[t].error_db[i].items
                IN  (SourceYields(op[t].error_db, items) /\ convertible(items))
                        => /\ DOMAIN error_stats = DOMAIN items
                           /\ \A key \in DOMAIN items :
                                  error_stats[key] = items[key].val
                           /\ relations = snap.relations
                           /\ nodes = snap.nodes
                           /\ events = snap.events

\* a call has replaced a mapping that had the key code:mod_x by the source's
\* mapping, which has the key code:mod_y only, taken from the third candidate
C15_Witness ==
    \E t \in Threads :
        /\ BodyDone(t, "update_error_stats")
        /\ <<"code:", "mod_x">> \in DOMAIN snap.error_stats
        /\ DOMAIN error_stats = {<<"code:", "mod_y">>}
        /\ events # <<>>

\* ------------------------------------------------------------------------
\* C16: update_error_stats never reports a failure and never corrupts the
\* state: a call whose source yields no mapping, or a mapping with a value
\* that does not convert to an integer, returns normally, and the
\* error-pressure mapping is what it was before the call.
C16_NeverFails ==
    \A t \in Threads :
        /\ (pc[t] = "pending" /\ op[t].name = "update_error_stats"
                /\ ~op[t].data.found)
              => ret[t] # Raised
        /\ (BodyDone(t, "update_error_stats") /\ ~convertible(op[t].data.items))
              => /\ ret[t] # Raised
                 /\ error_stats = snap.error_stats

\* ------------------------------------------------------------------------
\* thread t is inside a call that has not returned
InCall(t) == pc[t] \in {"pending", "body"}

\* some thread inside a call can take a step: t itself, or the thread that
\* holds the lock t waits for
CanProgress(t) ==
    \/ ENABLED Step(t)
    \/ ENABLED Acquire(t)
    \/ /\ lockOwner \in Threads \ {t}
       /\ ENABLED Step(lockOwner)

\* no state is a deadlock, and the lock is held only by a thread inside the
\* locked body of a call
NoDeadlock ==
    /\ \A t \in Threads : InCall(t) => CanProgress(t)
    /\ \A t \in Threads : lockOwner = t => pc[t] = "body"
    /\ ENABLED Next

\* C17 as stated: with the threads scheduled weakly fairly, every started
\* operation eventually returns, having released the lock, and no reachable
\* state is a deadlock.
C17_ReturnsUnderWeakFairness ==
    /\ []NoDeadlock
    /\ \A t \in Threads : InCall(t) ~> ~InCall(t)

\* C17, amended: no reachable state is a deadlock, and with the threads
\* scheduled weakly fairly every thread that has taken the lock eventually
\* releases it and returns, on every path, the early return of
\* add_memory_entry included.  (An operation that waits for the lock returns
\* once the lock is granted to it; the lock promises no order among waiters.)
C17_LockHolderReturns ==
    /\ []NoDeadlock
    /\ \A t \in Threads : (lockOwner = t) ~> (lockOwner # t /\ ~InCall(t))

\* a thread inside add_telemetry_event waits for the lock while the other
\* thread holds it
C17_Witness ==
    \E t \in Threads : \E u \in Threads :
        /\ pc[t] = "pending"
        /\ op[t].name = "add_telemetry_event"
        /\ lockOwner = u
        /\ pc[u] = "body"

\* ------------------------------------------------------------------------
\* C18: readers get snapshots, never live references: no write of a caller to
\* a value it was returned (an event record of a returned list included)
\* changes the store, hence what the store returns later, and a returned value
\* that a thread holds does not change when the store changes.
C18_ReturnedAreSnapshots ==
    [][/\ CallerWrite => UNCHANGED store
       /\ \A t \in Threads :
              (pc[t] = "returned" /\ pc'[t] = "returned" /\ store' # store)
                  => ret'[t] = ret[t]]_vars

\* ------------------------------------------------------------------------
\* the weights of the relation table are those of the table old, plus 1.0 in
\* both directions between every two distinct nodes of the set N
LinkedPairwise(old, N) ==
    \A a \in RelNodes \cup N : \A b \in RelNodes \cup N :
        Weight(relations, a, b)
            = Weight(old, a, b) + (IF a \in N /\ b \in N /\ a # b THEN W1 ELSE 0)

\* the node id code:<n> of a module name n, a name that starts with code:
\* being the id itself
CodeId(n) == IF n # <<>> /\ n[1] = "code:" THEN n ELSE <<"code:">> \o n

\* the node set of an add_telemetry_event call
TelemetryNodeSet(c) ==
    {<<"bot:">> \o c.record.bot, <<"event:">> \o c.record.event_type}
    \cup (IF c.record.module # None THEN {CodeId(c.record.module)} ELSE {})
    \cup {CodeId(c.mods[i]) : i \in {j \in DOMAIN c.mods : c.mods[j] # <<>>}}

\* C19: add_telemetry_event maps a module or related-module name n to the
\* node code:<n> and uses a name that starts with code: unchanged, so reports
\* for mod_x and for code:mod_x reach the same node and the same
\* error-pressure key; each call adds 1.0 between every two distinct nodes of
\* {bot:<bot>, event:<type>}, the module node and the related-module nodes,
\* empty related names dropped, and changes no other weight.
C19_TelemetryNodes ==
    \A t \in Threads :
        BodyDone(t, "add_telemetry_event") =>
            LET c == op[t]
                N == TelemetryNodeSet(c)
            IN  /\ LinkedPairwise(snap.relations, N)
                /\ N \subseteq DOMAIN nodes
                /\ \A k \in DOMAIN error_stats :
                       (c.record.module = None \/ k # CodeId(c.record.module))
                           => /\ k \in DOMAIN snap.error_stats
                              /\ error_stats[k] = snap.error_stats[k]
                /\ c.record.module # None
                       => CodeId(c.record.module) \in DOMAIN error_stats
                /\ \A n \in N : Len(n) >= 2 => n[2] # "code:"

\* a report for code:mod_x has run after a report for mod_x, whose count it
\* found under the key code:mod_x, and after a report with the related
\* modules mod_y, "" and mod_x
C19_Witness ==
    \E t \in Threads :
        /\ BodyDone(t, "add_telemetry_event")
        /\ op[t].record.module = <<"code:", "mod_x">>
        /\ Get(snap.error_stats, <<"code:", "mod_x">>, 0) = 1
        /\ \E i \in DOMAIN hist :
              /\ hist[i].name = "add_telemetry_event"
              /\ hist[i].record.module = <<"mod_x">>
        /\ \E i \in DOMAIN hist :
              /\ hist[i].name = "add_telemetry_event"
              /\ Len(hist[i].mods) = 3
        /\ Weight(relations, <<"code:", "mod_x">>, <<"bot:", "bot1">>) = 3 * W1

\* ------------------------------------------------------------------------
\* the node set of an add_gpt_insight call
InsightNodeSet(c) ==
    {<<"memory:">> \o c.key}
    \cup {<<"bot:">> \o c.bots[i] : i \in {j \in DOMAIN c.bots : c.bots[j] # <<>>}}
    \cup {<<"code:">> \o c.code_paths[i] :
              i \in {j \in DOMAIN c.code_paths : c.code_paths[j] # <<>>}}
    \cup {<<"error:">> \o c.error_categories[i] :
              i \in {j \in DOMAIN c.error_categories : c.error_categories[j] # <<>>}}

\* C20: add_gpt_insight(key, bots, code_paths, error_categories) makes sure
\* memory:<key> exists and adds exactly 1.0 to the weight between every two
\* distinct nodes of {memory:<key>} and the bot:, code: and error: nodes of
\* the non-empty values; an empty category or value gives no node, and
\* without any value no weight changes.
C20_InsightLinks ==
    \A t \in Threads :
        BodyDone(t, "add_gpt_insight") =>
            LET c == op[t]
                N == InsightNodeSet(c)
            IN  /\ LinkedPairwise(snap.relations, N)
                /\ N \subseteq DOMAIN nodes
                /\ DOMAIN nodes = DOMAIN snap.nodes \cup N
                /\ (c.bots = <<>> /\ c.code_paths = <<>> /\ c.error_categories = <<>>)
                       => relations = snap.relations
                /\ events = snap.events
                /\ error_stats = snap.error_stats

\* the insight with the bot bot1 named twice, an empty code path and the
\* category err has been recorded for the second time
C20_Witness ==
    \E t \in Threads :
        /\ BodyDone(t, "add_gpt_insight")
        /\ Len(op[t].bots) = 2
        /\ op[t].code_paths = <<EmptyStr>>
        /\ Weight(snap.relations, <<"memory:", "k1">>, <<"bot:", "bot1">>) = W1
        /\ Weight(relations, <<"memory:", "k1">>, <<"bot:", "bot1">>) = 2 * W1
        /\ Weight(relations, <<"bot:", "bot1">>, <<"error:", "err">>) = 2 * W1

\* ------------------------------------------------------------------------
\* the distinct non-empty ids of an argument list
ValidIds(ns) == {ns[i] : i \in DOMAIN ns} \ {EmptyStr, None}

\* C21: the linking primitive called with fewer than two distinct non-empty
\* ids is a no-op: during and after the call the relation table, the node map,
\* the event log and the error-pressure mapping are what they were when the
\* call began.
C21_LinkNoOp ==
    \A t \in Threads :
        (Holding(t, "_link") /\ Cardinality(ValidIds(op[t].nodes)) < 2)
            => CurrentStore = snap

\* ------------------------------------------------------------------------
\* the statement _ensure_node(a, **attrs) thread t executes in this step
EnsureStep(t) == Running(t, "ensure") /\ prog'[t] = Tail(prog[t])

\* C22: node creation is idempotent: _ensure_node on an existing id creates no
\* second node and leaves every other node alone; the written attributes take
\* the new value, the keys not mentioned keep theirs; and a call whose
\* attributes the node already has changes nothing.
C22_EnsureMerges ==
    [][\A t \in Threads :
        EnsureStep(t) =>
            LET a == Head(prog[t]).a
                attrs == Head(prog[t]).attrs
                before == IF a \in DOMAIN nodes THEN nodes[a] ELSE EmptyMap
            IN  /\ DOMAIN nodes' = DOMAIN nodes \cup {a}
                /\ \A n \in DOMAIN nodes \ {a} : nodes'[n] = nodes[n]
                /\ DOMAIN nodes'[a] = DOMAIN before \cup DOMAIN attrs
                /\ \A x \in DOMAIN attrs : nodes'[a][x] = attrs[x]
                /\ \A x \in DOMAIN before \ DOMAIN attrs : nodes'[a][x] = before[x]
                /\ ( a \in DOMAIN nodes
                     /\ \A x \in DOMAIN attrs :
                            x \in DOMAIN before /\ before[x] = attrs[x] )
                    => nodes' = nodes
    ]_vars

\* the node memory:k1 was created with kind and key and then written again
\* with another kind: the last kind wins and the key is kept
C22_Witness ==
    /\ <<"memory:", "k1">> \in DOMAIN nodes
    /\ nodes[<<"memory:", "k1">>] = [kind |-> "tag", key |-> <<"k1">>]

\* ------------------------------------------------------------------------
\* the kind named by the namespace prefix of a node id, "" if it has none
PrefixKind(n) ==
    IF n = <<>> THEN ""
    ELSE CASE Head(n) = "memory:" -> "memory"
           [] Head(n) = "tag:" -> "tag"
           [] Head(n) = "bot:" -> "bot"
           [] Head(n) = "code:" -> "code"
           [] Head(n) = "event:" -> "event"
           [] Head(n) = "error:" -> "error"
           [] OTHER -> ""

\* C23: the node id determines the kind: every node has a kind, it is the
\* kind its namespace prefix names, and no step changes the kind of a node
\* that has one.
C23_IdDeterminesKind ==
    /\ [](\A n \in DOMAIN nodes :
            /\ "kind" \in DOMAIN nodes[n]
            /\ nodes[n].kind = PrefixKind(n))
    /\ [][\A n \in DOMAIN nodes :
            "kind" \in DOMAIN nodes[n] => nodes'[n].kind = nodes[n].kind]_vars

\* the parts of C23 taken alone
C23_EveryNodeHasKind == \A n \in DOMAIN nodes : "kind" \in DOMAIN nodes[n]

C23_KindAgreesWithPrefix ==
    \A n \in DOMAIN nodes :
        "kind" \in DOMAIN nodes[n] => nodes[n].kind = PrefixKind(n)

C23_KindNeverChanges ==
    [][\A n \in DOMAIN nodes :
        "kind" \in DOMAIN nodes[n] => nodes'[n].kind = nodes[n].kind]_vars

\* ------------------------------------------------------------------------
\* every callback a hub holds, or is about to call, is callable
OnlyCallablesStored ==
    /\ \A topic \in DOMAIN subscribers :
        \A i \in DOMAIN subscribers[topic] : subscribers[topic][i] \in Callables
    /\ \A i \in DOMAIN subscriptions : subscriptions[i].callback \in Callables
    /\ \A i \in DOMAIN pub.callbacks : pub.callbacks[i] \in Callables

\* C24: subscribe(topic, callback) with a callback that is not callable raises
\* TypeError, on UnifiedEventBus and on _MemoryManager, and leaves the
\* subscriber list as it was: no entry is made for the topic, and no publish
\* ever holds or calls a value that is not callable.
C24_InvalidSubscriberFailsFast ==
    /\ []OnlyCallablesStored
    /\ [][\A topic \in Topics, cb \in NotCallables :
            /\ bus_subscribe(topic, cb) =>
                /\ outcome' = [hub |-> UnifiedEventBus, call |-> "subscribe",
                               value |-> "TypeError"]
                /\ DOMAIN subscribers' = DOMAIN subscribers
                /\ \A tp \in DOMAIN subscribers : subscribers'[tp] = subscribers[tp]
                /\ subscriptions' = subscriptions
                /\ pub' = pub
            /\ mm_subscribe(topic, cb) =>
                /\ outcome' = [hub |-> MemoryManager, call |-> "subscribe",
                               value |-> "TypeError"]
                /\ subscriptions' = subscriptions
                /\ subscribers' = subscribers
                /\ pub' = pub
       ]_vars

\* a subscription of a value that is not callable was refused by the bus that
\* has one subscriber for alerts and none for patches
C24_Witness ==
    /\ outcome = [hub |-> UnifiedEventBus, call |-> "subscribe", value |-> "TypeError"]
    /\ DOMAIN subscribers = {"alerts"}
    /\ subscribers["alerts"] = <<"ok">>

\* ------------------------------------------------------------------------
\* C25: weights only increase: every accumulated weight is non-negative, no
\* step of any operation makes the weight of a pair smaller, and a pair that
\* has an entry keeps it.
C25_WeightsOnlyIncrease ==
    /\ [](\A a \in DOMAIN relations : \A i \in DOMAIN relations[a] :
            relations[a][i].w >= 0)
    /\ [][relations' # relations =>
            \A a \in DOMAIN relations :
                /\ a \in DOMAIN relations'
                /\ \A i \in DOMAIN relations[a] :
                    /\ relations[a][i].name \in CounterNames(relations'[a])
                    /\ Weight(relations', a, relations[a][i].name)
                            >= relations[a][i].w
       ]_vars

\* a pair was linked by two calls, and the counters were replaced and a query
\* answered in between or after
C25_Witness ==
    /\ Weight(relations, <<"memory:", "k1">>, <<"alpha">>) >= 2 * W1
    /\ \E i \in DOMAIN hist : hist[i].name = "update_error_stats"

\* ------------------------------------------------------------------------
\* the non-empty stripped tags of an add_memory_entry call
MemoryTags(c) ==
    {normalise_tag(c.tags[i]) : i \in {j \in DOMAIN c.tags : c.tags[j] # EmptyStr}}
        \ {EmptyStr}

\* the weight the call c contributes to the pair (a, b)
Contribution(c, a, b) ==
    IF a = b THEN 0
    ELSE CASE c.name = "add_telemetry_event" ->
                IF {a, b} \subseteq TelemetryNodeSet(c) THEN W1 ELSE 0
           [] c.name = "add_gpt_insight" ->
                IF {a, b} \subseteq InsightNodeSet(c) THEN W1 ELSE 0
           [] c.name = "add_memory_entry" ->
                LET m == <<"memory:">> \o c.key
                    T == MemoryTags(c)
                IN  (IF (a = m /\ b \in T) \/ (b = m /\ a \in T) THEN W1 ELSE 0)
                    + (IF a \in T /\ b \in T THEN WHalf ELSE 0)
           [] OTHER -> 0

\* the sum of the contributions of the first n recorded calls
RECURSIVE Contributed(_, _, _)
Contributed(n, a, b) ==
    IF n = 0 THEN 0 ELSE Contributed(n - 1, a, b) + Contribution(hist[n], a, b)

\* the add_telemetry_event calls, in the order they took the lock
TelemetryCalls == SelectSeq(hist, LAMBDA c : c.name = "add_telemetry_event")

\* the reports for the module node key, and those among them that are resolved
ReportsFor(key) ==
    {i \in DOMAIN TelemetryCalls : TelemetryCalls[i].module_node = key}

ResolvedFor(key) ==
    {i \in ReportsFor(key) : TelemetryCalls[i].record.resolved = "True"}

\* C26: no update is lost when threads ingest concurrently: once every call
\* has returned, the relation table is the one the same calls produce when
\* run one after the other, each pair's weight is the sum of what the calls
\* contributed to it, the log has one record per add_telemetry_event call,
\* and a module that got only unresolved reports has a count equal to their
\* number.
C26_NoLostUpdates ==
    AllReturned =>
        /\ relations = WholeCalls(Len(hist))
        /\ \A a \in RelNodes : \A b \in RelNodes :
                Weight(relations, a, b) = Contributed(Len(hist), a, b)
        /\ Len(events) = Len(TelemetryCalls)
        /\ \A i \in DOMAIN events : events[i] = TelemetryCalls[i].record
        /\ error_stats = Recompute(events, EmptyMap)
        /\ \A key \in DOMAIN error_stats :
                ResolvedFor(key) = {} =>
                    error_stats[key] = Cardinality(ReportsFor(key))

\* two threads reported an unresolved event for the same module at the same
\* time (the record built first was appended second), and both have returned
C26_Witness ==
    /\ AllReturned
    /\ Len(events) = 2
    /\ events[1].timestamp > events[2].timestamp
    /\ <<"code:", "mod_x">> \in DOMAIN error_stats
    /\ error_stats[<<"code:", "mod_x">>] = 2
    /\ Weight(relations, <<"bot:", "bot1">>, <<"code:", "mod_x">>) = 2 * W1

\* ------------------------------------------------------------------------
\* in this step thread t computes the value a query returns from the relation
\* table, the error-pressure mapping or the event log
ReadStep(t) ==
    /\ pc[t] \in {"idle", "returned"}
    /\ pc'[t] \in {"body", "returned"}
    /\ ret'[t].kind \in {"names", "stats", "log"}
    /\ pc'[t] # pc[t] \/ ret'[t].log # ret[t].log

\* in this step thread t executes a statement of a mutating body
WriteStep(t) == pc[t] = "body" /\ Len(prog'[t]) # Len(prog[t])

\* the lock is held by exactly the threads that are inside a locked body
OneHolder == \A t \in Threads : pc[t] = "body" <=> lockOwner = t

\* C27: every access to the relation table, the event log and the
\* error-pressure mapping happens inside the exclusive section: a thread
\* that reads or writes one of them holds the store lock in that step, and at
\* most one thread holds the lock.
C27_AccessOnlyUnderLock ==
    /\ []OneHolder
    /\ [][\A t \in Threads :
            (ReadStep(t) \/ WriteStep(t)) => (lockOwner = t \/ lockOwner' = t)
       ]_vars

\* the same without the telemetry_events accessor
C27_LockedExceptAccessor ==
    /\ []OneHolder
    /\ [][\A t \in Threads :
            ((ReadStep(t) /\ ret'[t].kind # "log") \/ WriteStep(t))
                => (lockOwner = t \/ lockOwner' = t)
       ]_vars

\* ------------------------------------------------------------------------
\* the callbacks subscribed on hub to topic by the first n subscriptions, in
\* the order of the subscribe calls
RECURSIVE SubscribedTo(_, _, _)
SubscribedTo(hub, topic, n) ==
    IF n = 0 THEN <<>>
    ELSE SubscribedTo(hub, topic, n - 1)
            \o (IF subLog[n].hub = hub /\ subLog[n].topic = topic
                THEN <<subLog[n].callback>> ELSE <<>>)

\* C28: a publish calls the callbacks subscribed to its topic when it started,
\* each subscription once and in subscription order, and none of another
\* topic; a callback that raises stops neither the callbacks after it nor
\* the publish, and UnifiedEventBus.publish returns True; a callback
\* subscribed while the publish runs is not called by it, and is part of
\* what the next publish calls.
C28_PublishDelivers ==
    /\ [](pub.active =>
            LET due == SubscribedTo(pub.hub, pub.topic, pub.start)
            IN  /\ pub.i <= Len(due) + 1
                /\ pub.called = SubSeq(due, 1, pub.i - 1))
    /\ [][/\ bus_publish_return =>
                /\ pub.called = SubscribedTo(UnifiedEventBus, pub.topic, pub.start)
                /\ outcome'.value = "True"
          /\ mm_publish_return =>
                /\ pub.called = SubscribedTo(MemoryManager, pub.topic, pub.start)
                /\ outcome'.value = "None"
          /\ \A topic \in Topics :
                /\ bus_publish(topic) => pub'.start = Len(subLog)
                /\ mm_publish(topic) => pub'.start = Len(subLog)
       ]_vars

\* joiner subscribed late during an earlier publish on the bus, which did
\* not call it; the publish in progress has called joiner and then late
C28_Witness ==
    /\ pub.active
    /\ pub.hub = UnifiedEventBus
    /\ pub.start = 2
    /\ pub.called = <<"joiner", "late">>
    /\ subscribers[pub.topic] = <<"joiner", "late">>

\* a publish of the memory manager has called boom, which raised, and then ok
C28_WitnessRaise ==
    /\ pub.active
    /\ pub.hub = MemoryManager
    /\ pub.called = <<"boom", "ok">>

\* a publish is over while a callback of the other topic is subscribed
C28_WitnessOtherTopic ==
    /\ pub.active
    /\ pub.hub = UnifiedEventBus
    /\ pub.topic = "alerts"
    /\ pub.called = <<"ok">>
    /\ pub.i > Len(pub.callbacks)
    /\ "patches" \in DOMAIN subscribers

\* ------------------------------------------------------------------------
\* the connections created so far, and those of a name that are not closed
Created == 1 .. Len(connName)

OpenFor(name) == {c \in Created : connName[c] = name /\ c \notin closed}

\* no thread is inside the loop of close() that closes every cached connection
NotClosingAll == \A t \in Threads : rt[t].pc # "close_all"

CacheSound ==
    /\ \A name \in Names : Cardinality(OpenFor(name)) <= 1
    /\ \A name \in DOMAIN connections :
        /\ connections[name] \in Created
        /\ connName[connections[name]] = name
        /\ NotClosingAll => OpenFor(name) = {connections[name]}
    /\ \A t \in Threads :
        (rt[t].pc = "close_done" /\ rt[t].name = NoName) =>
            /\ DOMAIN connections = {}
            /\ Created \subseteq closed

\* get_connection returns to thread t in this step
ReturnsConnection(t) ==
    /\ rt[t].pc \in {"get_locked", "get_stored"}
    /\ rt'[t].pc = "idle"
    /\ fetched'[t].conn # NoConn

\* thread t executes lines 154-156 of close(name) in this step
ClosesName(t) == rt[t].pc = "close_one" /\ rt'[t].pc = "close_done"

\* C29: the router caches one connection per name: a name never has two open
\* connections, so concurrent get_connection calls for a name create one and
\* return the same; what get_connection returns is the cached, open
\* connection of that name, hence a new one after a close; close(name) closes
\* and removes that name's connection and no other; after close() the cache
\* is empty and every connection is closed; no closed connection is cached
\* except inside the loop of close().
C29_OneConnectionPerName ==
    /\ []CacheSound
    /\ [][\A t \in Threads :
            /\ ReturnsConnection(t) =>
                /\ rt[t].name \in DOMAIN connections'
                /\ fetched'[t] = [name |-> rt[t].name,
                                  conn |-> connections'[rt[t].name]]
                /\ fetched'[t].conn \notin closed'
            /\ ClosesName(t) =>
                /\ DOMAIN connections' = DOMAIN connections \ {rt[t].name}
                /\ \A n \in DOMAIN connections' : connections'[n] = connections[n]
                /\ closed' = closed \cup
                      (IF rt[t].name \in DOMAIN connections
                       THEN {connections[rt[t].name]} ELSE {})
       ]_vars

\* both threads asked for the same name at the same time: one connection was
\* created and both got it
C29_Witness ==
    /\ rt["t1"].pc = "get_locked"
    /\ rt["t1"].conn # NoConn
    /\ rt["t2"].pc = "idle"
    /\ fetched["t2"] = [name |-> rt["t1"].name, conn |-> rt["t1"].conn]
    /\ Len(connName) = 1
    /\ getsLeft = MaxGets - 2

\* a name was closed and asked for again: its cached connection is a new one
C29_WitnessReopened ==
    \E name \in DOMAIN connections :
        /\ connections[name] \notin closed
        /\ \E c \in closed : connName[c] = name

====
